---- MODULE Spec2Model ----
(***************************************************************************)
(* Model of the sandman bed-control daemon: the GPIO line registry         *)
(* (sandman_main/gpio.py), the Control state machine                        *)
(* (sandman_main/controls.py) and the Timer (sandman_main/timer.py).        *)
(*                                                                         *)
(* Environment assumptions: the gpiod calls raise only the errors the code  *)
(* handles (OSError when the chip is opened, ValueError or a false request  *)
(* when a line is requested); such a failure is a nondeterministic input.   *)
(***************************************************************************)
EXTENDS Integers, Sequences, FiniteSets, TLC

\* ---------------------------------------------------------------- bounds
\* GPIO lines are 0..MaxLine.
MaxLine == 3
\* The clock advances in half-millisecond steps, MaxTicks steps at most.
MaxTicks == 3
\* The clock of the ControlManager's Controls advances MaxManagerTicks steps
\* at most.
MaxManagerTicks == 4
\* Largest moving duration (in ms) handed to Control.initialize.
MaxMovingMs == 1
\* Largest cool down duration (in ms) handed to Control.initialize.
MaxCoolDownMs == 1

\* The most events the report manager holds between two of its process calls.
MaxEvents == 2
\* The most steps of a routine description.
MaxSteps == 2
\* Largest delay (in ms) of a step.
MaxDelayMs == 2
\* The clock of a Routine advances in steps of one millisecond,
\* MaxRoutineTicks steps at most.
MaxRoutineTicks == 6
\* The emissions of a Routine are counted up to MaxEmitted.
MaxEmitted == 4
\* The integers of a parsed file are -1..MaxJsonInt.
MaxJsonInt == 1
\* The most elements of the steps of a parsed routine description.
MaxJsonSteps == 2

\* ------------------------------------------------------------- constants
\* Nanoseconds per millisecond, the divisor of Timer.get_time_since_ms.
NsPerMs == 1000000

StepNs == NsPerMs \div 2
MaxTimeNs == MaxTicks * StepNs
MaxManagerTimeNs == MaxManagerTicks * StepNs
MaxRoutineTimeNs == MaxRoutineTicks * NsPerMs

Lines == 0..MaxLine

\* The names of the Control objects that can be constructed.
ControlNames == {"back", "legs"}

\* Control.State
IDLE == "IDLE"
MOVE_UP == "MOVE_UP"
MOVE_DOWN == "MOVE_DOWN"
COOL_DOWN == "COOL_DOWN"
State == {IDLE, MOVE_UP, MOVE_DOWN, COOL_DOWN}

\* gpiod.line.Value as driven on an output line; INPUT is a line that is not
\* driven: the registry holds no request for it (it configures a released
\* line back as an input).
ACTIVE == "ACTIVE"
INACTIVE == "INACTIVE"
INPUT == "INPUT"

\* Return values of the operations.
RetTrue == "True"
RetFalse == "False"
RetNone == "None"
RetValueError == "ValueError"

VARIABLES
    gpio_manager,   \* the shared GPIOManager
    control,        \* the Control objects, by name
    current_time,   \* the Timer's clock, in ns
    notifications,  \* the notifications appended by the last operation
    call,           \* the last operation: its name, its Control, its result
                    \* and, for process, the state and the desired state
                    \* it found, for set_desired_state, the state asked for,
                    \* for an operation on a GPIO line, the line
    entry,          \* history: when each Control made its last transition,
                    \* from which state, and whether the transition before
                    \* it was the end of a cool down
    report_manager, \* the ReportManager's pending events
    descs,          \* the RoutineManager's routine descriptions, by name
    routines,       \* the Routine objects, by name
    routine_order,  \* the names of the Routine objects, in the order of
                    \* the dict
    command_list    \* the commands appended by the last operation

\* The variables of the routines.
routine_vars == <<descs, routines, routine_order, command_list>>

vars == <<gpio_manager, control, current_time, notifications, call, entry,
          report_manager, descs, routines, routine_order, command_list>>

\* --------------------------------------------------------- Timer (timer.py)
get_time_since_ms(now, other_time) == (now - other_time) \div NsPerMs

\* ------------------------------------------------------ GPIOManager (gpio.py)
GPIOManagerNew(is_live_mode) ==
    [ is_live_mode |-> is_live_mode,
      initialized |-> FALSE,
      chip |-> FALSE,
      line_requests |-> {},
      line_values |-> [l \in Lines |-> INPUT] ]

acquired_lines(g) == g.line_requests

\* Mutant: an acquired line is handed out again.
acquire_output_line_twice(g, line, hw_ok) ==
    IF g.initialized = FALSE THEN [ret |-> FALSE, g |-> g]
    ELSE IF g.chip = FALSE /\ g.is_live_mode = TRUE THEN [ret |-> FALSE, g |-> g]
    ELSE IF g.is_live_mode = FALSE
        THEN [ret |-> TRUE,
              g |-> [g EXCEPT !.line_requests = @ \cup {line}]]
    ELSE IF hw_ok = FALSE THEN [ret |-> FALSE, g |-> g]
    ELSE [ret |-> TRUE,
          g |-> [g EXCEPT !.line_requests = @ \cup {line},
                          !.line_values[line] = ACTIVE]]

\* Mutant: a registry that is not initialized hands out lines.
acquire_output_line_unchecked(g, line, hw_ok) ==
    IF line \in g.line_requests THEN [ret |-> FALSE, g |-> g]
    ELSE IF g.is_live_mode = FALSE
        THEN [ret |-> TRUE,
              g |-> [g EXCEPT !.line_requests = @ \cup {line}]]
    ELSE IF g.chip = FALSE THEN [ret |-> FALSE, g |-> g]
    ELSE IF hw_ok = FALSE THEN [ret |-> FALSE, g |-> g]
    ELSE [ret |-> TRUE,
          g |-> [g EXCEPT !.line_requests = @ \cup {line},
                          !.line_values[line] = ACTIVE]]

\* hw_ok: whether chip.request_lines hands out the line (live mode only).
acquire_output_line(g, line, hw_ok) ==
    IF g.initialized = FALSE THEN [ret |-> FALSE, g |-> g]
    ELSE IF g.chip = FALSE /\ g.is_live_mode = TRUE THEN [ret |-> FALSE, g |-> g]
    ELSE IF line \in g.line_requests THEN [ret |-> FALSE, g |-> g]
    ELSE IF g.is_live_mode = FALSE
        THEN [ret |-> TRUE,
              g |-> [g EXCEPT !.line_requests = @ \cup {line}]]
    ELSE IF hw_ok = FALSE THEN [ret |-> FALSE, g |-> g]
    ELSE [ret |-> TRUE,
          g |-> [g EXCEPT !.line_requests = @ \cup {line},
                          !.line_values[line] = ACTIVE]]

\* Mutant: the release of a line that is not acquired succeeds.
release_output_line_any(g, line) ==
    LET released == [g EXCEPT !.line_requests = @ \ {line}]
    IN  IF g.chip = FALSE
        THEN [ret |-> TRUE, g |-> released]
        ELSE [ret |-> TRUE,
              g |-> [released EXCEPT !.line_values[line] = INPUT]]

release_output_line(g, line) ==
    IF line \notin g.line_requests THEN [ret |-> FALSE, g |-> g]
    ELSE LET released == [g EXCEPT !.line_requests = @ \ {line}]
         IN  IF g.chip = FALSE
             THEN [ret |-> TRUE, g |-> released]
             ELSE [ret |-> TRUE,
                   g |-> [released EXCEPT !.line_values[line] = INPUT]]

set_line_value(g, line, value) ==
    IF line \notin g.line_requests THEN [ret |-> FALSE, g |-> g]
    ELSE IF g.is_live_mode = TRUE
        THEN [ret |-> TRUE, g |-> [g EXCEPT !.line_values[line] = value]]
        ELSE [ret |-> TRUE, g |-> g]

\* The values are inverted: logically active drives the line INACTIVE.
set_line_active(g, line) == set_line_value(g, line, INACTIVE)
set_line_inactive(g, line) == set_line_value(g, line, ACTIVE)

\* The loop of GPIOManager.uninitialize over the acquired lines.
RECURSIVE release_lines(_, _)
release_lines(g, lines) ==
    IF lines = {} THEN g
    ELSE LET line == CHOOSE l \in lines : \A m \in lines : l <= m
         IN  release_lines(release_output_line(g, line).g, lines \ {line})

gpio_initialize(g, chip_ok) ==
    IF g.is_live_mode = FALSE THEN [g EXCEPT !.initialized = TRUE]
    ELSE IF chip_ok = FALSE THEN g
    ELSE [g EXCEPT !.chip = TRUE, !.initialized = TRUE]

\* Mutant: the acquired lines are kept when the registry is uninitialized.
gpio_uninitialize_keeps_lines(g) ==
    [g EXCEPT !.chip = FALSE, !.initialized = FALSE]

gpio_uninitialize(g) ==
    [release_lines(g, acquired_lines(g)) EXCEPT !.chip = FALSE,
                                                   !.initialized = FALSE]

\* --------------------------------------------------- Control (controls.py)
NoTime == -1

ControlNew ==
    [ state |-> IDLE,
      desired_state |-> IDLE,
      up_gpio_line |-> -1,
      down_gpio_line |-> -1,
      moving_duration_ms |-> -1,
      cool_down_duration_ms |-> -1,
      initialized |-> FALSE,
      state_start_time |-> NoTime ]

\* Mutant: the up line is not released when the down line is refused.
control_initialize_no_rollback(ctl, g, up, down, moving, cool, hw_up, hw_down) ==
    IF ctl.initialized = TRUE THEN [ret |-> FALSE, ctl |-> ctl, g |-> g]
    ELSE IF up < 0 THEN [ret |-> FALSE, ctl |-> ctl, g |-> g]
    ELSE IF down < 0 THEN [ret |-> FALSE, ctl |-> ctl, g |-> g]
    ELSE IF up = down THEN [ret |-> FALSE, ctl |-> ctl, g |-> g]
    ELSE IF moving < 1 THEN [ret |-> FALSE, ctl |-> ctl, g |-> g]
    ELSE IF cool < 0 THEN [ret |-> FALSE, ctl |-> ctl, g |-> g]
    ELSE
      LET assigned == [ctl EXCEPT !.up_gpio_line = up,
                                  !.down_gpio_line = down,
                                  !.moving_duration_ms = moving,
                                  !.cool_down_duration_ms = cool]
          got_up == acquire_output_line(g, up, hw_up)
          got_down == acquire_output_line(got_up.g, down, hw_down)
      IN  IF got_up.ret = FALSE
          THEN [ret |-> FALSE, ctl |-> assigned, g |-> g]
          ELSE IF got_down.ret = FALSE
          THEN [ret |-> FALSE, ctl |-> assigned, g |-> got_down.g]
          ELSE [ret |-> TRUE,
                ctl |-> [assigned EXCEPT !.initialized = TRUE],
                g |-> set_line_inactive(
                          set_line_inactive(got_down.g, up).g, down).g]

\* Mutant: a moving duration of 0 is accepted.
control_initialize_zero_moving(ctl, g, up, down, moving, cool, hw_up, hw_down) ==
    IF ctl.initialized = TRUE THEN [ret |-> FALSE, ctl |-> ctl, g |-> g]
    ELSE IF up < 0 THEN [ret |-> FALSE, ctl |-> ctl, g |-> g]
    ELSE IF down < 0 THEN [ret |-> FALSE, ctl |-> ctl, g |-> g]
    ELSE IF up = down THEN [ret |-> FALSE, ctl |-> ctl, g |-> g]
    ELSE IF moving < 0 THEN [ret |-> FALSE, ctl |-> ctl, g |-> g]
    ELSE IF cool < 0 THEN [ret |-> FALSE, ctl |-> ctl, g |-> g]
    ELSE
      LET assigned == [ctl EXCEPT !.up_gpio_line = up,
                                  !.down_gpio_line = down,
                                  !.moving_duration_ms = moving,
                                  !.cool_down_duration_ms = cool]
          got_up == acquire_output_line(g, up, hw_up)
          got_down == acquire_output_line(got_up.g, down, hw_down)
      IN  IF got_up.ret = FALSE
          THEN [ret |-> FALSE, ctl |-> assigned, g |-> g]
          ELSE IF got_down.ret = FALSE
          THEN [ret |-> FALSE, ctl |-> assigned,
                g |-> release_output_line(got_down.g, up).g]
          ELSE [ret |-> TRUE,
                ctl |-> [assigned EXCEPT !.initialized = TRUE],
                g |-> set_line_inactive(
                          set_line_inactive(got_down.g, up).g, down).g]

\* Control.initialize: the result, the Control and the registry afterwards.
control_initialize(ctl, g, up, down, moving, cool, hw_up, hw_down) ==
    IF ctl.initialized = TRUE THEN [ret |-> FALSE, ctl |-> ctl, g |-> g]
    ELSE IF up < 0 THEN [ret |-> FALSE, ctl |-> ctl, g |-> g]
    ELSE IF down < 0 THEN [ret |-> FALSE, ctl |-> ctl, g |-> g]
    ELSE IF up = down THEN [ret |-> FALSE, ctl |-> ctl, g |-> g]
    ELSE IF moving < 1 THEN [ret |-> FALSE, ctl |-> ctl, g |-> g]
    ELSE IF cool < 0 THEN [ret |-> FALSE, ctl |-> ctl, g |-> g]
    ELSE
      LET assigned == [ctl EXCEPT !.up_gpio_line = up,
                                  !.down_gpio_line = down,
                                  !.moving_duration_ms = moving,
                                  !.cool_down_duration_ms = cool]
          got_up == acquire_output_line(g, up, hw_up)
          got_down == acquire_output_line(got_up.g, down, hw_down)
      IN  IF got_up.ret = FALSE
          THEN [ret |-> FALSE, ctl |-> assigned, g |-> g]
          ELSE IF got_down.ret = FALSE
          THEN [ret |-> FALSE, ctl |-> assigned,
                g |-> release_output_line(got_down.g, up).g]
          ELSE [ret |-> TRUE,
                ctl |-> [assigned EXCEPT !.initialized = TRUE],
                g |-> set_line_inactive(
                          set_line_inactive(got_down.g, up).g, down).g]

\* Mutant: a Control whose release failed stays initialized.
control_uninitialize_keeps_on_failure(ctl, g) ==
    IF ctl.initialized = FALSE THEN [ret |-> FALSE, ctl |-> ctl, g |-> g]
    ELSE
      LET rel_up == release_output_line(g, ctl.up_gpio_line)
          rel_down == release_output_line(rel_up.g, ctl.down_gpio_line)
      IN  [ret |-> rel_up.ret /\ rel_down.ret,
           ctl |-> [ctl EXCEPT !.initialized = ~(rel_up.ret /\ rel_down.ret)],
           g |-> rel_down.g]

\* Control.uninitialize.
control_uninitialize(ctl, g) ==
    IF ctl.initialized = FALSE THEN [ret |-> FALSE, ctl |-> ctl, g |-> g]
    ELSE
      LET rel_up == release_output_line(g, ctl.up_gpio_line)
          rel_down == release_output_line(rel_up.g, ctl.down_gpio_line)
      IN  [ret |-> rel_up.ret /\ rel_down.ret,
           ctl |-> [ctl EXCEPT !.initialized = FALSE],
           g |-> rel_down.g]

\* Mutant: the requested state is entered at once.
set_desired_state_at_once(ctl, state) ==
    IF state = COOL_DOWN THEN ctl
    ELSE [ctl EXCEPT !.desired_state = state, !.state = state]

\* Mutant: a request for COOL_DOWN is recorded like any other.
set_desired_state_any(ctl, state) ==
    [ctl EXCEPT !.desired_state = state]

\* Mutant: a request for the state the Control is in restarts its timer.
set_desired_state_restarts(ctl, state) ==
    IF state = COOL_DOWN THEN ctl
    ELSE IF state = ctl.state
        THEN [ctl EXCEPT !.desired_state = state, !.state_start_time = NoTime]
    ELSE [ctl EXCEPT !.desired_state = state]

\* Control.set_desired_state (on an initialized Control).
set_desired_state(ctl, state) ==
    IF state = COOL_DOWN THEN ctl
    ELSE [ctl EXCEPT !.desired_state = state]

\* Mutant: a switch between the moving states keeps the running timer.
set_state_keeps_timer(name, ctl, g, state, now) ==
    LET up == ctl.up_gpio_line
        down == ctl.down_gpio_line
        moved == IF ctl.state \in {MOVE_UP, MOVE_DOWN}
                    /\ state \in {MOVE_UP, MOVE_DOWN}
                 THEN [ctl EXCEPT !.state = state]
                 ELSE [ctl EXCEPT !.state = state, !.state_start_time = now]
    IN  CASE state = MOVE_UP ->
               [ctl |-> moved,
                g |-> set_line_active(set_line_inactive(g, down).g, up).g,
                notes |-> << <<"Raising the", name>> >>]
          [] state = MOVE_DOWN ->
               [ctl |-> moved,
                g |-> set_line_active(set_line_inactive(g, up).g, down).g,
                notes |-> << <<"Lowering the", name>> >>]
          [] state = COOL_DOWN ->
               [ctl |-> moved,
                g |-> set_line_inactive(set_line_inactive(g, up).g, down).g,
                notes |-> << <<name, "stopped">> >>]
          [] OTHER ->
               [ctl |-> moved,
                g |-> set_line_inactive(set_line_inactive(g, up).g, down).g,
                notes |-> << >>]

\* Control.__set_state: the Control, the registry and the notifications
\* appended.
set_state(name, ctl, g, state, now) ==
    LET up == ctl.up_gpio_line
        down == ctl.down_gpio_line
        moved == [ctl EXCEPT !.state = state, !.state_start_time = now]
    IN  CASE state = MOVE_UP ->
               [ctl |-> moved,
                g |-> set_line_active(set_line_inactive(g, down).g, up).g,
                notes |-> << <<"Raising the", name>> >>]
          [] state = MOVE_DOWN ->
               [ctl |-> moved,
                g |-> set_line_active(set_line_inactive(g, up).g, down).g,
                notes |-> << <<"Lowering the", name>> >>]
          [] state = COOL_DOWN ->
               [ctl |-> moved,
                g |-> set_line_inactive(set_line_inactive(g, up).g, down).g,
                notes |-> << <<name, "stopped">> >>]
          [] OTHER ->
               [ctl |-> moved,
                g |-> set_line_inactive(set_line_inactive(g, up).g, down).g,
                notes |-> << >>]

\* Mutant: a moving state drives its own line before it releases the other.
set_state_calls_target_first(ctl, state) ==
    LET up == ctl.up_gpio_line
        down == ctl.down_gpio_line
    IN  CASE state = MOVE_UP -> << <<"active", up>>, <<"inactive", down>> >>
          [] state = MOVE_DOWN -> << <<"active", down>>, <<"inactive", up>> >>
          [] OTHER -> << <<"inactive", up>>, <<"inactive", down>> >>

\* The GPIO calls Control.__set_state makes, in the order it makes them.
set_state_calls(ctl, state) ==
    LET up == ctl.up_gpio_line
        down == ctl.down_gpio_line
    IN  CASE state = MOVE_UP -> << <<"inactive", down>>, <<"active", up>> >>
          [] state = MOVE_DOWN -> << <<"inactive", up>>, <<"active", down>> >>
          [] OTHER -> << <<"inactive", up>>, <<"inactive", down>> >>

\* The registry after the first k of the calls.
RECURSIVE after_calls(_, _, _)
after_calls(g, calls, k) ==
    IF k = 0 THEN g
    ELSE LET before == after_calls(g, calls, k - 1)
         IN  IF calls[k][1] = "active"
                 THEN set_line_active(before, calls[k][2]).g
             ELSE set_line_inactive(before, calls[k][2]).g

no_change(ctl, g) == [ctl |-> ctl, g |-> g, notes |-> << >>]

\* Mutant: a request to move down raises the Control.
process_idle_state_up_only(name, ctl, g, now) ==
    IF ctl.desired_state = IDLE THEN no_change(ctl, g)
    ELSE IF ctl.desired_state # MOVE_UP /\ ctl.desired_state # MOVE_DOWN
        THEN no_change([ctl EXCEPT !.desired_state = IDLE], g)
    ELSE set_state(name, ctl, g, MOVE_UP, now)

process_idle_state(name, ctl, g, now) ==
    IF ctl.desired_state = IDLE THEN no_change(ctl, g)
    ELSE IF ctl.desired_state # MOVE_UP /\ ctl.desired_state # MOVE_DOWN
        THEN no_change([ctl EXCEPT !.desired_state = IDLE], g)
    ELSE set_state(name, ctl, g, ctl.desired_state, now)

\* Mutant: the moving duration is compared exclusively.
process_moving_states_exclusive(name, ctl, g, now) ==
    IF ctl.desired_state # ctl.state /\ ctl.desired_state \in {MOVE_UP, MOVE_DOWN}
        THEN set_state(name, ctl, g, ctl.desired_state, now)
    ELSE IF ctl.desired_state # ctl.state /\ ctl.desired_state = IDLE
        THEN set_state(name, ctl, g, COOL_DOWN, now)
    ELSE IF get_time_since_ms(now, ctl.state_start_time) <= ctl.moving_duration_ms
        THEN no_change(ctl, g)
    ELSE set_state(name, [ctl EXCEPT !.desired_state = IDLE], g, COOL_DOWN, now)

\* Mutant: a stop request goes straight to IDLE.
process_moving_states_stop_to_idle(name, ctl, g, now) ==
    IF ctl.desired_state # ctl.state /\ ctl.desired_state \in {MOVE_UP, MOVE_DOWN}
        THEN set_state(name, ctl, g, ctl.desired_state, now)
    ELSE IF ctl.desired_state # ctl.state /\ ctl.desired_state = IDLE
        THEN set_state(name, ctl, g, IDLE, now)
    ELSE IF get_time_since_ms(now, ctl.state_start_time) < ctl.moving_duration_ms
        THEN no_change(ctl, g)
    ELSE set_state(name, [ctl EXCEPT !.desired_state = IDLE], g, COOL_DOWN, now)

\* Mutant: a movement that times out ends in IDLE, without cool down.
process_moving_states_timeout_to_idle(name, ctl, g, now) ==
    IF ctl.desired_state # ctl.state /\ ctl.desired_state \in {MOVE_UP, MOVE_DOWN}
        THEN set_state(name, ctl, g, ctl.desired_state, now)
    ELSE IF ctl.desired_state # ctl.state /\ ctl.desired_state = IDLE
        THEN set_state(name, ctl, g, COOL_DOWN, now)
    ELSE IF get_time_since_ms(now, ctl.state_start_time) < ctl.moving_duration_ms
        THEN no_change(ctl, g)
    ELSE set_state(name, [ctl EXCEPT !.desired_state = IDLE], g, IDLE, now)

\* Mutant: a movement that has timed out ends, whatever is requested.
process_moving_states_timeout_first(name, ctl, g, now) ==
    IF get_time_since_ms(now, ctl.state_start_time) >= ctl.moving_duration_ms
        THEN set_state(name, [ctl EXCEPT !.desired_state = IDLE], g, COOL_DOWN, now)
    ELSE IF ctl.desired_state # ctl.state /\ ctl.desired_state \in {MOVE_UP, MOVE_DOWN}
        THEN set_state(name, ctl, g, ctl.desired_state, now)
    ELSE IF ctl.desired_state # ctl.state /\ ctl.desired_state = IDLE
        THEN set_state(name, ctl, g, COOL_DOWN, now)
    ELSE no_change(ctl, g)

\* Mutant: a movement never times out.
process_moving_states_no_timeout(name, ctl, g, now) ==
    IF ctl.desired_state # ctl.state /\ ctl.desired_state \in {MOVE_UP, MOVE_DOWN}
        THEN set_state(name, ctl, g, ctl.desired_state, now)
    ELSE IF ctl.desired_state # ctl.state /\ ctl.desired_state = IDLE
        THEN set_state(name, ctl, g, COOL_DOWN, now)
    ELSE no_change(ctl, g)

process_moving_states(name, ctl, g, now) ==
    IF ctl.desired_state # ctl.state /\ ctl.desired_state \in {MOVE_UP, MOVE_DOWN}
        THEN set_state(name, ctl, g, ctl.desired_state, now)
    ELSE IF ctl.desired_state # ctl.state /\ ctl.desired_state = IDLE
        THEN set_state(name, ctl, g, COOL_DOWN, now)
    ELSE IF get_time_since_ms(now, ctl.state_start_time) < ctl.moving_duration_ms
        THEN no_change(ctl, g)
    ELSE set_state(name, [ctl EXCEPT !.desired_state = IDLE], g, COOL_DOWN, now)

\* Mutant: a request to move interrupts the cool down.
process_cool_down_state_interrupted(name, ctl, g, now) ==
    IF ctl.desired_state \in {MOVE_UP, MOVE_DOWN}
        THEN set_state(name, ctl, g, ctl.desired_state, now)
    ELSE IF get_time_since_ms(now, ctl.state_start_time) < ctl.cool_down_duration_ms
        THEN no_change(ctl, g)
    ELSE set_state(name, [ctl EXCEPT !.desired_state = IDLE], g, IDLE, now)

\* Mutant: the request made during the cool down survives it.
process_cool_down_state_keeps_request(name, ctl, g, now) ==
    IF get_time_since_ms(now, ctl.state_start_time) < ctl.cool_down_duration_ms
        THEN no_change(ctl, g)
    ELSE set_state(name, ctl, g, IDLE, now)

process_cool_down_state(name, ctl, g, now) ==
    IF get_time_since_ms(now, ctl.state_start_time) < ctl.cool_down_duration_ms
        THEN no_change(ctl, g)
    ELSE set_state(name, [ctl EXCEPT !.desired_state = IDLE], g, IDLE, now)

\* Control.process (on an initialized Control).
process(name, ctl, g, now) ==
    CASE ctl.state = IDLE -> process_idle_state(name, ctl, g, now)
      [] ctl.state \in {MOVE_UP, MOVE_DOWN} ->
             process_moving_states(name, ctl, g, now)
      [] ctl.state = COOL_DOWN -> process_cool_down_state(name, ctl, g, now)

\* ------------------------------------------- ControlManager (controls.py)
\* ControlConfig.is_valid.
is_valid(config) ==
    IF config.name = "" THEN FALSE
    ELSE IF config.up_gpio_line < 0 THEN FALSE
    ELSE IF config.down_gpio_line < 0 THEN FALSE
    ELSE IF config.up_gpio_line = config.down_gpio_line THEN FALSE
    ELSE IF config.moving_duration_ms < 0 THEN FALSE
    ELSE IF config.cool_down_duration_ms < 0 THEN FALSE
    ELSE TRUE

\* The configs parsed from the *.ctl files of the controls directory, in the
\* order in which glob yields them: two Controls with different durations, a
\* second file for the name "legs" whose lines overlap both, and a config
\* without a name.
ControlFiles ==
    << [name |-> "back", up_gpio_line |-> 0, down_gpio_line |-> 1,
        moving_duration_ms |-> 1, cool_down_duration_ms |-> 1],
       [name |-> "legs", up_gpio_line |-> 2, down_gpio_line |-> 3,
        moving_duration_ms |-> 2, cool_down_duration_ms |-> 0],
       [name |-> "legs", up_gpio_line |-> 1, down_gpio_line |-> 2,
        moving_duration_ms |-> 1, cool_down_duration_ms |-> 1],
       [name |-> "", up_gpio_line |-> 2, down_gpio_line |-> 3,
        moving_duration_ms |-> 1, cool_down_duration_ms |-> 1] >>

\* The order of the manager's dict of Controls: the order of insertion,
\* which is the order in which the names first occur in the files.
ControlOrder == <<"back", "legs">>

\* The names of the Controls of the dict, in the order of the dict.
control_names(controls) ==
    SelectSeq(ControlOrder, LAMBDA n : n \in DOMAIN controls)

NoControls == [c \in {} |-> ControlNew]

\* The loop of ControlManager.uninitialize over the Controls named.
RECURSIVE uninitialize_controls(_, _, _)
uninitialize_controls(controls, g, names) ==
    IF names = << >> THEN g
    ELSE uninitialize_controls(
             controls,
             control_uninitialize(controls[Head(names)], g).g,
             Tail(names))

\* ControlManager.uninitialize: the dict and the registry afterwards.
manager_uninitialize(controls, g) ==
    [controls |-> NoControls,
     g |-> uninitialize_controls(controls, g, control_names(controls))]

\* The loop of ControlManager.initialize over the files from the i-th on, hw
\* being the answers of the hardware for each file.
RECURSIVE load_controls(_, _, _, _)
load_controls(controls, g, i, hw) ==
    IF i > Len(ControlFiles) THEN [controls |-> controls, g |-> g]
    ELSE
      LET config == ControlFiles[i]
          r == control_initialize(ControlNew, g,
                                  config.up_gpio_line, config.down_gpio_line,
                                  config.moving_duration_ms,
                                  config.cool_down_duration_ms,
                                  hw[i][1], hw[i][2])
      IN  IF is_valid(config) = FALSE
              THEN load_controls(controls, g, i + 1, hw)
          ELSE IF config.name \in DOMAIN controls
              THEN load_controls(controls, g, i + 1, hw)
          ELSE IF r.ret = FALSE
              THEN load_controls(controls, r.g, i + 1, hw)
          ELSE load_controls(controls @@ (config.name :> r.ctl), r.g,
                             i + 1, hw)

\* Mutant: the files are loaded without uninitializing first.
manager_initialize_keeps_lines(controls, g, hw) ==
    load_controls(NoControls, g, 1, hw)

\* ControlManager.initialize.
manager_initialize(controls, g, hw) ==
    load_controls(NoControls, manager_uninitialize(controls, g).g, 1, hw)

\* Mutant: every Control of the dict is processed twice.
RECURSIVE process_controls_twice(_, _, _, _)
process_controls_twice(controls, g, names, now) ==
    IF names = << >> THEN [controls |-> controls, g |-> g, notes |-> << >>]
    ELSE
      LET name == Head(names)
          r == process(name, controls[name], g, now)
          again == process(name, r.ctl, r.g, now)
          rest == process_controls_twice(
                      [controls EXCEPT ![name] = again.ctl], again.g,
                      Tail(names), now)
      IN  [rest EXCEPT !.notes = r.notes \o again.notes \o @]

\* The loop of ControlManager.process_controls over the Controls named (the
\* Controls of the dict are initialized): the dict, the registry and the
\* notifications appended.
RECURSIVE process_controls(_, _, _, _)
process_controls(controls, g, names, now) ==
    IF names = << >> THEN [controls |-> controls, g |-> g, notes |-> << >>]
    ELSE
      LET name == Head(names)
          r == process(name, controls[name], g, now)
          rest == process_controls([controls EXCEPT ![name] = r.ctl], r.g,
                                   Tail(names), now)
      IN  [rest EXCEPT !.notes = r.notes \o @]

\* ----------------------------------------------------------- report manager
\* The names set_time_zone_name is given: one the zone database knows and one
\* it does not.
ValidTimeZoneNames == {"America/Chicago"}
TimeZoneNames == ValidTimeZoneNames \cup {"Mars/Olympus"}

\* A ReportManager after construction, with the TimeSource it holds: the
\* time zone is not set and there is no pending event.
ReportManagerNew == [time_zone_name |-> "", pending_events |-> << >>]

\* TimeSource.set_time_zone_name: raises ValueError for a name the zone
\* database does not know and keeps the zone it had.
set_time_zone_name(rm, time_zone_name) ==
    IF time_zone_name \in ValidTimeZoneNames
    THEN [rm EXCEPT !.time_zone_name = time_zone_name]
    ELSE rm

\* TimeSource.get_current_time raises unless its time zone is a known one.
has_current_time(rm) == rm.time_zone_name \in ValidTimeZoneNames

\* Mutant: an event is kept even without a time to stamp it with.
add_event_always(rm, info) ==
    [rm EXCEPT !.pending_events = Append(@, info)]

\* ReportManager.__add_event: the event is dropped when the time source
\* gives no time, and appended otherwise (the time stamp is not modelled).
add_event(rm, info) ==
    IF has_current_time(rm)
    THEN [rm EXCEPT !.pending_events = Append(@, info)]
    ELSE rm

\* ReportManager.add_control_event.
add_control_event(rm, control_name, action, source) ==
    add_event(rm, [type |-> "control", control |-> control_name,
                   action |-> action, source |-> source])

\* ReportManager.process: without a time nothing happens; otherwise every
\* pending event is popped and written to the report file.
report_process(rm) ==
    IF has_current_time(rm) THEN [rm EXCEPT !.pending_events = << >>] ELSE rm

\* ----------------------------------------------------------------- commands
UP == "UP"
DOWN == "DOWN"
Direction == {UP, DOWN}

\* Direction.as_string.
as_string(direction) == IF direction = UP THEN "up" ELSE "down"

\* The state a command's direction asks for.
direction_state(direction) == IF direction = UP THEN MOVE_UP ELSE MOVE_DOWN

\* Mutant: a command for a missing Control is still reported.
process_command_reports_missing(controls, rm, control_name, direction, source) ==
    IF control_name \notin DOMAIN controls
    THEN [ret |-> RetFalse, controls |-> controls,
          rm |-> add_control_event(rm, control_name, as_string(direction),
                                   source)]
    ELSE IF controls[control_name].initialized = FALSE
    THEN [ret |-> RetValueError, controls |-> controls, rm |-> rm]
    ELSE [ret |-> RetTrue,
          controls |-> [controls EXCEPT ![control_name] =
                           set_desired_state(@, direction_state(direction))],
          rm |-> add_control_event(rm, control_name, as_string(direction),
                                   source)]

\* ControlManager.process_command: what it returns, the dict and the report
\* manager afterwards. Control.set_desired_state raises ValueError for a
\* Control that is not initialized, before anything is reported.
manager_process_command(controls, rm, control_name, direction, source) ==
    IF control_name \notin DOMAIN controls
    THEN [ret |-> RetFalse, controls |-> controls, rm |-> rm]
    ELSE IF controls[control_name].initialized = FALSE
    THEN [ret |-> RetValueError, controls |-> controls, rm |-> rm]
    ELSE [ret |-> RetTrue,
          controls |-> [controls EXCEPT ![control_name] =
                           set_desired_state(@, direction_state(direction))],
          rm |-> add_control_event(rm, control_name, as_string(direction),
                                   source)]

\* ----------------------------------------------------------------- routines
\* commands.ControlCommand as a Routine builds it.
ControlCommand(control_name, direction, source) ==
    [control_name |-> control_name, direction |-> direction,
     source |-> source]

\* Routine.__init__: the Routine of a description, made at the time now.
RoutineNew(desc, now) ==
    [desc |-> desc, is_finished |-> FALSE, step_index |-> 0,
     step_start_time |-> now]

\* The step of a description at a zero-based index.
step_at(desc, index) == desc.steps[index + 1]

\* Mutant: the end of the steps finishes a looping Routine too.
advance_step_never_loops(routine, now) ==
    LET next == [routine EXCEPT !.step_start_time = now,
                                !.step_index = @ + 1]
    IN  IF next.step_index < Len(routine.desc.steps) THEN next
        ELSE [next EXCEPT !.is_finished = TRUE]

\* Mutant: the step entered keeps the start time of the step left.
advance_step_keeps_start(routine, now) ==
    LET next == [routine EXCEPT !.step_index = @ + 1]
    IN  IF next.step_index < Len(routine.desc.steps) THEN next
        ELSE IF routine.desc.is_looping = TRUE
             THEN [next EXCEPT !.step_index = 0]
             ELSE [next EXCEPT !.is_finished = TRUE]

\* Mutant: the end of the steps starts every Routine over.
advance_step_always_loops(routine, now) ==
    LET next == [routine EXCEPT !.step_start_time = now,
                                !.step_index = @ + 1]
    IN  IF next.step_index < Len(routine.desc.steps) THEN next
        ELSE [next EXCEPT !.step_index = 0]

\* Routine.__advance_step.
advance_step(routine, now) ==
    LET next == [routine EXCEPT !.step_start_time = now,
                                !.step_index = @ + 1]
    IN  IF next.step_index < Len(routine.desc.steps) THEN next
        ELSE IF routine.desc.is_looping = TRUE
             THEN [next EXCEPT !.step_index = 0]
             ELSE [next EXCEPT !.is_finished = TRUE]

\* Mutant: a Routine without steps is finished whether it loops or not.
routine_process_no_steps_finishes(routine, now) ==
    IF routine.is_finished = TRUE
    THEN [routine |-> routine, commands |-> << >>]
    ELSE IF Len(routine.desc.steps) = 0
    THEN [routine |-> [routine EXCEPT !.is_finished = TRUE],
          commands |-> << >>]
    ELSE LET step == step_at(routine.desc, routine.step_index)
         IN  IF get_time_since_ms(now, routine.step_start_time)
                    < step.delay_ms
             THEN [routine |-> routine, commands |-> << >>]
             ELSE [routine |-> advance_step(routine, now),
                   commands |-> <<ControlCommand(step.control_name,
                                                 step.move_direction,
                                                 "routine")>>]

\* Mutant: a step waits until more than its delay has elapsed.
routine_process_exclusive(routine, now) ==
    IF routine.is_finished = TRUE
    THEN [routine |-> routine, commands |-> << >>]
    ELSE IF Len(routine.desc.steps) = 0
    THEN [routine |-> [routine EXCEPT
                          !.is_finished = (routine.desc.is_looping = FALSE)],
          commands |-> << >>]
    ELSE LET step == step_at(routine.desc, routine.step_index)
         IN  IF get_time_since_ms(now, routine.step_start_time)
                    <= step.delay_ms
             THEN [routine |-> routine, commands |-> << >>]
             ELSE [routine |-> advance_step(routine, now),
                   commands |-> <<ControlCommand(step.control_name,
                                                 step.move_direction,
                                                 "routine")>>]

\* Mutant: the steps that are due are all emitted by one call.
RECURSIVE routine_process_all_due(_, _)
routine_process_all_due(routine, now) ==
    IF routine.is_finished = TRUE
    THEN [routine |-> routine, commands |-> << >>]
    ELSE IF Len(routine.desc.steps) = 0
    THEN [routine |-> [routine EXCEPT
                          !.is_finished = (routine.desc.is_looping = FALSE)],
          commands |-> << >>]
    ELSE LET step == step_at(routine.desc, routine.step_index)
         IN  IF get_time_since_ms(now, routine.step_start_time)
                    < step.delay_ms
             THEN [routine |-> routine, commands |-> << >>]
             ELSE LET next == advance_step(routine, now)
                      more == IF next.step_index > routine.step_index
                              THEN routine_process_all_due(next, now)
                              ELSE [routine |-> next, commands |-> << >>]
                  IN  [more EXCEPT
                          !.commands =
                              <<ControlCommand(step.control_name,
                                               step.move_direction,
                                               "routine")>> \o @]

\* Mutant: a finished Routine goes on with the step it stopped at.
routine_process_ignores_finished(routine, now) ==
    IF Len(routine.desc.steps) = 0
    THEN [routine |-> [routine EXCEPT
                          !.is_finished = (routine.desc.is_looping = FALSE)],
          commands |-> << >>]
    ELSE LET index == routine.step_index % Len(routine.desc.steps)
             step == step_at(routine.desc, index)
         IN  IF get_time_since_ms(now, routine.step_start_time)
                    < step.delay_ms
             THEN [routine |-> routine, commands |-> << >>]
             ELSE [routine |-> advance_step(
                                   [routine EXCEPT !.step_index = index],
                                   now),
                   commands |-> <<ControlCommand(step.control_name,
                                                 step.move_direction,
                                                 "routine")>>]

\* Routine.process at the time now: the Routine afterwards and the commands
\* appended to the command list.
routine_process(routine, now) ==
    IF routine.is_finished = TRUE
    THEN [routine |-> routine, commands |-> << >>]
    ELSE IF Len(routine.desc.steps) = 0
    THEN [routine |-> [routine EXCEPT
                          !.is_finished = (routine.desc.is_looping = FALSE)],
          commands |-> << >>]
    ELSE LET step == step_at(routine.desc, routine.step_index)
         IN  IF get_time_since_ms(now, routine.step_start_time)
                    < step.delay_ms
             THEN [routine |-> routine, commands |-> << >>]
             ELSE [routine |-> advance_step(routine, now),
                   commands |-> <<ControlCommand(step.control_name,
                                                 step.move_direction,
                                                 "routine")>>]

\* ----------------------------------------------------------- RoutineManager
START == "START"
STOP == "STOP"
Action == {START, STOP}

\* Action.as_string.
action_as_string(action) == IF action = START THEN "start" ELSE "stop"

\* ReportManager.add_routine_event(name, action): the file of the reports
\* module is not among the sources; the event is the one the interface of
\* the journal names, added like a control event.
add_routine_event(rm, routine_name, action) ==
    add_event(rm, [type |-> "routine", routine |-> routine_name,
                   action |-> action])

\* RoutineDesc.Step.is_valid.
step_is_valid(step) == step.delay_ms >= 0 /\ step.control_name # ""

\* RoutineDesc.is_valid.
desc_is_valid(desc) ==
    /\ desc.name # ""
    /\ \A i \in 1..Len(desc.steps) : step_is_valid(desc.steps[i])

\* A step of a description.
Step(delay_ms, control_name, move_direction) ==
    [delay_ms |-> delay_ms, control_name |-> control_name,
     move_direction |-> move_direction]

\* The descriptions parsed from the files of the routines directory, in the
\* order glob gives them: two routines, a second file for a name already
\* loaded, and a file without a name.
RoutineFiles ==
    << [name |-> "wake", is_looping |-> FALSE,
        steps |-> <<Step(0, "back", UP), Step(1, "legs", DOWN)>>],
       [name |-> "sleep", is_looping |-> TRUE,
        steps |-> <<Step(1, "back", DOWN)>>],
       [name |-> "wake", is_looping |-> TRUE, steps |-> << >>],
       [name |-> "", is_looping |-> FALSE,
        steps |-> <<Step(0, "legs", UP)>>] >>

NoDescs == [n \in {} |-> RoutineFiles[1]]
NoRoutines == [n \in {} |-> RoutineNew(RoutineFiles[1], 0)]

\* The loop of RoutineManager.initialize over the files from the i-th on.
RECURSIVE load_descs(_, _)
load_descs(loaded, i) ==
    IF i > Len(RoutineFiles) THEN loaded
    ELSE LET desc == RoutineFiles[i]
         IN  IF desc_is_valid(desc) = FALSE THEN load_descs(loaded, i + 1)
             ELSE IF desc.name \in DOMAIN loaded
                 THEN load_descs(loaded, i + 1)
             ELSE load_descs(loaded @@ (desc.name :> desc), i + 1)

\* A dict without the key named.
without(dict, name) == [n \in DOMAIN dict \ {name} |-> dict[n]]

\* The notifications of the RoutineManager, as the pieces of their text.
AlreadyRunning(name) == <<"The ", name, " routine is already running.">>
NoSuchRoutine(name) == <<"There is no ", name, " routine.">>
Started(name) == <<"Started the ", name, " routine.">>
NotRunning(name) == <<"The ", name, " routine is not running.">>
Stopped(name) == <<"Stopped the ", name, " routine.">>
Finished(name) == <<"The ", name, " routine finished.">>

\* Mutant: a START of a running routine starts it over.
start_routine_restarts(loaded, running, order, routine_name, now) ==
    IF routine_name \notin DOMAIN loaded
    THEN [ret |-> NoSuchRoutine(routine_name), routines |-> running,
          order |-> order]
    ELSE IF routine_name \in DOMAIN running
    THEN [ret |-> AlreadyRunning(routine_name),
          routines |-> [running EXCEPT ![routine_name] =
                           RoutineNew(loaded[routine_name], now)],
          order |-> order]
    ELSE [ret |-> Started(routine_name),
          routines |-> running @@
              (routine_name :> RoutineNew(loaded[routine_name], now)),
          order |-> Append(order, routine_name)]

\* RoutineManager.__start_routine: the notification returned, the running
\* Routines and their order afterwards.
start_routine(loaded, running, order, routine_name, now) ==
    IF routine_name \in DOMAIN running
    THEN [ret |-> AlreadyRunning(routine_name), routines |-> running,
          order |-> order]
    ELSE IF routine_name \notin DOMAIN loaded
    THEN [ret |-> NoSuchRoutine(routine_name), routines |-> running,
          order |-> order]
    ELSE [ret |-> Started(routine_name),
          routines |-> running @@
              (routine_name :> RoutineNew(loaded[routine_name], now)),
          order |-> Append(order, routine_name)]

\* Mutant: a STOP answers that the routine stopped and leaves it running.
stop_routine_keeps_running(running, order, routine_name) ==
    IF routine_name \notin DOMAIN running
    THEN [ret |-> NotRunning(routine_name), routines |-> running,
          order |-> order]
    ELSE [ret |-> Stopped(routine_name), routines |-> running,
          order |-> order]

\* RoutineManager.__stop_routine.
stop_routine(running, order, routine_name) ==
    IF routine_name \notin DOMAIN running
    THEN [ret |-> NotRunning(routine_name), routines |-> running,
          order |-> order]
    ELSE [ret |-> Stopped(routine_name),
          routines |-> without(running, routine_name),
          order |-> SelectSeq(order, LAMBDA n : n # routine_name)]

\* Mutant: only the commands that succeed are reported.
process_command_reports_success(loaded, running, order, rm, action, name, now) ==
    LET r == IF action = START
             THEN start_routine(loaded, running, order, name, now)
             ELSE stop_routine(running, order, name)
    IN  [ret |-> r.ret, routines |-> r.routines, order |-> r.order,
         rm |-> IF r.ret \in {Started(name), Stopped(name)}
                THEN add_routine_event(rm, name, action_as_string(action))
                ELSE rm]

\* RoutineManager.process_command: the event is reported first, then the
\* routine is started or stopped.
routine_process_command(loaded, running, order, rm, action, name, now) ==
    LET reported == add_routine_event(rm, name, action_as_string(action))
        r == IF action = START
             THEN start_routine(loaded, running, order, name, now)
             ELSE stop_routine(running, order, name)
    IN  [ret |-> r.ret, routines |-> r.routines, order |-> r.order,
         rm |-> reported]

\* The first loop of RoutineManager.process_routines over the names given:
\* the Routines processed, the commands appended and the names finished.
RECURSIVE process_running(_, _, _)
process_running(running, names, now) ==
    IF names = << >>
    THEN [routines |-> running, commands |-> << >>, finished |-> << >>]
    ELSE LET name == Head(names)
             r == routine_process(running[name], now)
             rest == process_running([running EXCEPT ![name] = r.routine],
                                     Tail(names), now)
         IN  [rest EXCEPT
                 !.commands = r.commands \o @,
                 !.finished = IF r.routine.is_finished = TRUE
                              THEN <<name>> \o @ ELSE @]

\* Mutant: the finished Routines are announced and stay in the dict.
process_routines_keeps_finished(running, order, now) ==
    LET r == process_running(running, order, now)
    IN  [routines |-> r.routines,
         order |-> order,
         commands |-> r.commands,
         notes |-> [i \in 1..Len(r.finished) |-> Finished(r.finished[i])]]

\* RoutineManager.process_routines: the Routines left running and their
\* order, the commands and the notifications appended.
process_routines(running, order, now) ==
    LET r == process_running(running, order, now)
        gone == {r.finished[i] : i \in 1..Len(r.finished)}
    IN  [routines |-> [n \in DOMAIN running \ gone |-> r.routines[n]],
         order |-> SelectSeq(order, LAMBDA n : n \notin gone),
         commands |-> r.commands,
         notes |-> [i \in 1..Len(r.finished) |-> Finished(r.finished[i])]]

\* ------------------------------------------------------------------ Sandman
\* commands.StatusCommand and commands.RoutineCommand.
StatusCommand == [status |-> TRUE]
RoutineCommand(routine_name, action) ==
    [routine_name |-> routine_name, action |-> action]

\* ReportManager.add_status_event.
add_status_event(rm) == add_event(rm, [type |-> "status"])

\* Sandman.__process_status_command: the notifications it appends.
status_notes(order) ==
    <<<<"Sandman is running.">>>> \o
    [i \in 1..Len(order) |-> <<"The ", order[i], " routine is running.">>]

\* Sandman.__process_commands over the commands of a list, in its order;
\* st holds the Controls, the report manager, the running Routines, their
\* order and the notifications.
RECURSIVE process_commands(_, _, _, _)
process_commands(st, loaded, list, now) ==
    IF list = << >> THEN st
    ELSE
      LET command == Head(list)
          next ==
            IF "status" \in DOMAIN command
            THEN [st EXCEPT !.rm = add_status_event(st.rm),
                            !.notes = @ \o status_notes(st.order)]
            ELSE IF "direction" \in DOMAIN command
            THEN LET r == manager_process_command(
                              st.controls, st.rm, command.control_name,
                              command.direction, command.source)
                 IN  [st EXCEPT !.controls = r.controls, !.rm = r.rm]
            ELSE LET r == routine_process_command(
                              loaded, st.routines, st.order, st.rm,
                              command.action, command.routine_name, now)
                 IN  [st EXCEPT !.routines = r.routines, !.order = r.order,
                                !.rm = r.rm, !.notes = Append(@, r.ret)]
      IN  process_commands(next, loaded, Tail(list), now)

\* Mutant: the commands popped from MQTT go before those of the routines.
sandman_process_mqtt_first(controls, g, rm, loaded, running, order, popped, now) ==
    LET advanced == process_routines(running, order, now)
        list == popped \o advanced.commands
        st == process_commands(
                  [controls |-> controls, rm |-> rm,
                   routines |-> advanced.routines, order |-> advanced.order,
                   notes |-> advanced.notes], loaded, list, now)
        done == process_controls(st.controls, g, control_names(st.controls),
                                 now)
    IN  [controls |-> done.controls, g |-> done.g,
         rm |-> report_process(st.rm),
         routines |-> st.routines, order |-> st.order,
         commands |-> list, notes |-> st.notes \o done.notes]

\* Sandman.__process, one tick of the main loop with the commands popped
\* from MQTT: the routines are processed, the popped commands are appended
\* to theirs, all are dispatched, the Controls are processed and the report
\* manager writes its events out.
sandman_process(controls, g, rm, loaded, running, order, popped, now) ==
    LET advanced == process_routines(running, order, now)
        list == advanced.commands \o popped
        st == process_commands(
                  [controls |-> controls, rm |-> rm,
                   routines |-> advanced.routines, order |-> advanced.order,
                   notes |-> advanced.notes], loaded, list, now)
        done == process_controls(st.controls, g, control_names(st.controls),
                                 now)
    IN  [controls |-> done.controls, g |-> done.g,
         rm |-> report_process(st.rm),
         routines |-> st.routines, order |-> st.order,
         commands |-> list, notes |-> st.notes \o done.notes]

\* --------------------------------- parsing (controls.py, routines.py)
\* The values json.load yields for a key of a record: integers (one of them
\* negative), strings (one of them empty) and the boolean true, which
\* isinstance counts among the integers with the value 1.
JsonInt(i) == [t |-> "int", v |-> i]
JsonStr(s) == [t |-> "str", v |-> s]
JsonTrue == [t |-> "bool", v |-> 1]
JsonList(l) == [t |-> "list", v |-> l]

JsonValues ==
    {JsonInt(i) : i \in -1..MaxJsonInt}
        \cup {JsonStr(s) : s \in {"", "back", "up", "down"}}
        \cup {JsonTrue}

\* The records over a set of keys, any of which may be missing.
JsonObjects(keys) == UNION {[K -> JsonValues] : K \in SUBSET keys}

\* A setter of an integer property behind json[key]: a missing key
\* (KeyError), a value that is no integer (TypeError) and a negative one
\* (ValueError) leave the property as it was.
int_property(json, key, old) ==
    IF key \notin DOMAIN json THEN old
    ELSE IF json[key].t \notin {"int", "bool"} THEN old
    ELSE IF json[key].v < 0 THEN old
    ELSE json[key].v

\* A setter of a name behind json[key]: a missing key, a value that is no
\* string and the empty string leave the name as it was.
name_property(json, key, old) ==
    IF key \notin DOMAIN json THEN old
    ELSE IF json[key].t # "str" THEN old
    ELSE IF json[key].v = "" THEN old
    ELSE json[key].v

\* ControlConfig.__init__.
ControlConfigNew ==
    [name |-> "", up_gpio_line |-> -1, down_gpio_line |-> -1,
     moving_duration_ms |-> -1, cool_down_duration_ms |-> 25]

config_parse_resets_cool_down(json) ==
    LET config == ControlConfigNew
        cool == int_property(json, "coolDownDurationMS", -1)
    IN  [name |-> name_property(json, "name", config.name),
         up_gpio_line |->
             int_property(json, "upGPIOLine", config.up_gpio_line),
         down_gpio_line |->
             int_property(json, "downGPIOLine", config.down_gpio_line),
         moving_duration_ms |->
             int_property(json, "movingDurationMS", config.moving_duration_ms),
         cool_down_duration_ms |->
             IF "coolDownDurationMS" \in DOMAIN json THEN cool
             ELSE config.cool_down_duration_ms]

\* ControlConfig.parse_from_file on a file that holds a record.
config_parse_from_file(json) ==
    LET config == ControlConfigNew
    IN  [name |-> name_property(json, "name", config.name),
         up_gpio_line |->
             int_property(json, "upGPIOLine", config.up_gpio_line),
         down_gpio_line |->
             int_property(json, "downGPIOLine", config.down_gpio_line),
         moving_duration_ms |->
             int_property(json, "movingDurationMS", config.moving_duration_ms),
         cool_down_duration_ms |->
             int_property(json, "coolDownDurationMS",
                          config.cool_down_duration_ms)]

\* RoutineDesc.Step.__init__.
StepNew == Step(-1, "", UP)

\* RoutineDesc.Step.load_from_json on a record.
load_from_json(step_json) ==
    LET step == StepNew
        given == "moveDirection" \in DOMAIN step_json
        move_direction == step_json["moveDirection"]
    IN  Step(int_property(step_json, "delayMS", step.delay_ms),
             name_property(step_json, "controlName", step.control_name),
             IF given = FALSE THEN step.move_direction
             ELSE IF move_direction.t # "str" THEN step.move_direction
             ELSE IF move_direction.v = "up" THEN UP
             ELSE IF move_direction.v = "down" THEN DOWN
             ELSE step.move_direction)

\* RoutineDesc.__load_steps from the i-th element on: an element that is no
\* record ends the loop with a TypeError, which parse_from_file catches.
RECURSIVE load_steps(_, _, _)
load_steps(steps_json, i, steps) ==
    IF i > Len(steps_json) THEN steps
    ELSE IF "t" \in DOMAIN steps_json[i] THEN steps
    ELSE LET step == load_from_json(steps_json[i])
         IN  IF step_is_valid(step) = TRUE
                 THEN load_steps(steps_json, i + 1, Append(steps, step))
             ELSE load_steps(steps_json, i + 1, steps)

\* RoutineDesc.parse_from_file on a file that holds a record.
desc_parse_from_file(json) ==
    [name |-> name_property(json, "name", ""),
     is_looping |->
         IF "isLooping" \notin DOMAIN json THEN FALSE
         ELSE IF json["isLooping"].t # "bool" THEN FALSE
         ELSE json["isLooping"].v = 1,
     steps |->
         IF "steps" \notin DOMAIN json THEN << >>
         ELSE IF json["steps"].t # "list" THEN << >>
         ELSE load_steps(json["steps"].v, 1, << >>)]

BoolRet(b) == IF b THEN RetTrue ELSE RetFalse

\* The record of the last call; a process call on a Control keeps the state
\* it found (from), the desired state (wanted) and when that state was
\* entered (since).
Called(op, c, ret) ==
    [op |-> op, control |-> c, ret |-> ret, from |-> "", wanted |-> "",
     line |-> -1, since |-> NoTime]

\* ------------------------------------------------------------------ actions
\* The history of a Control that has made no transition.
NewEntry == [time |-> NoTime, from |-> IDLE, rested |-> FALSE]

\* The state after construction of the registry and of the Controls named.
InitWith(names) ==
    /\ \E live \in BOOLEAN : gpio_manager = GPIOManagerNew(live)
    /\ control = [c \in names |-> ControlNew]
    /\ current_time = 0
    /\ notifications = << >>
    /\ call = Called("new", "", RetNone)
    /\ entry = [c \in names |-> NewEntry]
    /\ report_manager = ReportManagerNew
    /\ descs = << >>
    /\ routines = << >>
    /\ routine_order = << >>
    /\ command_list = << >>

GPIOInitialize ==
    /\ \E chip_ok \in BOOLEAN :
           gpio_manager' = gpio_initialize(gpio_manager, chip_ok)
    /\ notifications' = << >>
    /\ UNCHANGED <<report_manager, routine_vars>>
    /\ call' = Called("GPIOManager.initialize", "", RetNone)
    /\ UNCHANGED <<control, current_time, entry>>

GPIOUninitialize ==
    /\ gpio_manager' = gpio_uninitialize(gpio_manager)
    /\ notifications' = << >>
    /\ UNCHANGED <<report_manager, routine_vars>>
    /\ call' = Called("GPIOManager.uninitialize", "", RetNone)
    /\ UNCHANGED <<control, current_time, entry>>

\* What chip.request_lines can answer to one request.
LineOutcomes == IF gpio_manager.is_live_mode = TRUE THEN BOOLEAN ELSE {TRUE}

\* The GPIOManager operations on one line, called directly.
GPIOAcquireOutputLine(line) ==
    \E hw_ok \in LineOutcomes :
        LET r == acquire_output_line(gpio_manager, line, hw_ok)
        IN  /\ gpio_manager' = r.g
            /\ call' = [Called("GPIOManager.acquire_output_line", "",
                                BoolRet(r.ret)) EXCEPT !.line = line]
            /\ notifications' = << >>
            /\ UNCHANGED <<report_manager, routine_vars>>
            /\ UNCHANGED <<control, current_time, entry>>

GPIOReleaseOutputLine(line) ==
    LET r == release_output_line(gpio_manager, line)
    IN  /\ gpio_manager' = r.g
        /\ call' = [Called("GPIOManager.release_output_line", "",
                            BoolRet(r.ret)) EXCEPT !.line = line]
        /\ notifications' = << >>
        /\ UNCHANGED <<report_manager, routine_vars>>
        /\ UNCHANGED <<control, current_time, entry>>

GPIOSetLineActive(line) ==
    LET r == set_line_active(gpio_manager, line)
    IN  /\ gpio_manager' = r.g
        /\ call' = [Called("GPIOManager.set_line_active", "",
                            BoolRet(r.ret)) EXCEPT !.line = line]
        /\ notifications' = << >>
        /\ UNCHANGED <<report_manager, routine_vars>>
        /\ UNCHANGED <<control, current_time, entry>>

GPIOSetLineInactive(line) ==
    LET r == set_line_inactive(gpio_manager, line)
    IN  /\ gpio_manager' = r.g
        /\ call' = [Called("GPIOManager.set_line_inactive", "",
                            BoolRet(r.ret)) EXCEPT !.line = line]
        /\ notifications' = << >>
        /\ UNCHANGED <<report_manager, routine_vars>>
        /\ UNCHANGED <<control, current_time, entry>>

\* What chip.request_lines can answer to the two requests of an initialize.
HardwareOutcomes ==
    IF gpio_manager.is_live_mode = TRUE
    THEN {<<TRUE, TRUE>>, <<FALSE, TRUE>>, <<TRUE, FALSE>>}
    ELSE {<<TRUE, TRUE>>}

\* The outcome of the call control[c].initialize(a[1], a[2], a[3], a[4]) made
\* in the current state, hw being the answers of the hardware.
InitializeOutcome(c, a, hw) ==
    control_initialize(control[c], gpio_manager, a[1], a[2], a[3], a[4],
                       hw[1], hw[2])

\* One Control.initialize call, hw being the answers of the hardware.
ControlInitializeWith(c, up, down, moving, cool, hw) ==
    LET r == InitializeOutcome(c, <<up, down, moving, cool>>, hw)
    IN  /\ control' = [control EXCEPT ![c] = r.ctl]
        /\ gpio_manager' = r.g
        /\ notifications' = << >>
        /\ UNCHANGED <<report_manager, routine_vars>>
        /\ call' = Called("Control.initialize", c, BoolRet(r.ret))
        /\ UNCHANGED <<current_time, entry>>

ControlInitialize(c, up, down, moving, cool) ==
    \E hw \in HardwareOutcomes :
        ControlInitializeWith(c, up, down, moving, cool, hw)

\* The outcome of the call control[c].uninitialize() made in the current
\* state.
UninitializeOutcome(c) == control_uninitialize(control[c], gpio_manager)

ControlUninitialize(c) ==
    LET r == UninitializeOutcome(c)
    IN  /\ control' = [control EXCEPT ![c] = r.ctl]
        /\ gpio_manager' = r.g
        /\ notifications' = << >>
        /\ UNCHANGED <<report_manager, routine_vars>>
        /\ call' = Called("Control.uninitialize", c, BoolRet(r.ret))
        /\ UNCHANGED <<current_time, entry>>

\* Mutant: an uninitialized Control records the request.
ControlSetDesiredState_unguarded(c, state) ==
    /\ call' = [Called("Control.set_desired_state", c, RetNone)
                   EXCEPT !.wanted = state]
    /\ control' = [control EXCEPT ![c] = set_desired_state(control[c], state)]
    /\ notifications' = << >>
    /\ UNCHANGED <<report_manager, routine_vars>>
    /\ UNCHANGED <<gpio_manager, current_time, entry>>

ControlSetDesiredState(c, state) ==
    /\ IF control[c].initialized = FALSE
       THEN /\ call' = [Called("Control.set_desired_state", c, RetValueError)
                          EXCEPT !.wanted = state]
            /\ UNCHANGED control
       ELSE /\ call' = [Called("Control.set_desired_state", c, RetNone)
                          EXCEPT !.wanted = state]
            /\ control' = [control EXCEPT
                              ![c] = set_desired_state(control[c], state)]
    /\ notifications' = << >>
    /\ UNCHANGED <<report_manager, routine_vars>>
    /\ UNCHANGED <<gpio_manager, current_time, entry>>

ControlProcess(c) ==
    IF control[c].initialized = FALSE
    THEN /\ call' = Called("Control.process", c, RetValueError)
         /\ notifications' = << >>
         /\ UNCHANGED <<report_manager, routine_vars>>
         /\ UNCHANGED <<control, gpio_manager, current_time, entry>>
    ELSE LET r == process(c, control[c], gpio_manager, current_time)
         IN  /\ control' = [control EXCEPT ![c] = r.ctl]
             /\ gpio_manager' = r.g
             /\ notifications' = r.notes
             /\ UNCHANGED <<report_manager, routine_vars>>
             /\ call' = [Called("Control.process", c, RetNone)
                           EXCEPT !.from = control[c].state,
                                  !.wanted = control[c].desired_state,
                                  !.since = control[c].state_start_time]
             /\ entry' =
                    IF r.ctl.state # control[c].state
                    THEN [entry EXCEPT ![c] =
                             [time |-> current_time,
                              from |-> control[c].state,
                              rested |-> /\ control[c].state = IDLE
                                         /\ entry[c].from = COOL_DOWN]]
                    ELSE entry
             /\ UNCHANGED current_time

\* The clock moves on between two operations.
AdvanceTime ==
    /\ current_time + StepNs <= MaxTimeNs
    /\ current_time' = current_time + StepNs
    /\ notifications' = << >>
    /\ UNCHANGED <<report_manager, routine_vars>>
    /\ call' = Called("time", "", RetNone)
    /\ UNCHANGED <<gpio_manager, control, entry>>

\* What chip.request_lines can answer to the requests made for each file:
\* it grants them all, or refuses one request of one file.
ManagerHardwareOutcomes ==
    {[i \in 1..Len(ControlFiles) |-> IF i = file THEN hw ELSE <<TRUE, TRUE>>] :
        file \in 1..Len(ControlFiles), hw \in HardwareOutcomes}

\* ControlManager.initialize: the Controls are those of the manager's dict.
ManagerInitialize ==
    \E hw \in ManagerHardwareOutcomes :
        LET r == manager_initialize(control, gpio_manager, hw)
        IN  /\ control' = r.controls
            /\ gpio_manager' = r.g
            /\ entry' = [c \in DOMAIN r.controls |-> NewEntry]
            /\ notifications' = << >>
            /\ UNCHANGED <<report_manager, routine_vars>>
            /\ call' = Called("ControlManager.initialize", "", RetNone)
            /\ UNCHANGED current_time

ManagerUninitialize ==
    LET r == manager_uninitialize(control, gpio_manager)
    IN  /\ control' = r.controls
        /\ gpio_manager' = r.g
        /\ entry' = [c \in DOMAIN r.controls |-> NewEntry]
        /\ notifications' = << >>
        /\ UNCHANGED <<report_manager, routine_vars>>
        /\ call' = Called("ControlManager.uninitialize", "", RetNone)
        /\ UNCHANGED current_time

ManagerProcessControls ==
    LET r == process_controls(control, gpio_manager, control_names(control),
                              current_time)
    IN  /\ control' = r.controls
        /\ gpio_manager' = r.g
        /\ notifications' = r.notes
        /\ UNCHANGED <<report_manager, routine_vars>>
        /\ call' = Called("ControlManager.process_controls", "", RetNone)
        /\ entry' =
               [c \in DOMAIN control |->
                   IF r.controls[c].state # control[c].state
                   THEN [time |-> current_time,
                         from |-> control[c].state,
                         rested |-> /\ control[c].state = IDLE
                                    /\ entry[c].from = COOL_DOWN]
                   ELSE entry[c]]
        /\ UNCHANGED current_time

\* The clock moves on between two operations on the ControlManager.
ManagerAdvanceTime ==
    /\ current_time + StepNs <= MaxManagerTimeNs
    /\ current_time' = current_time + StepNs
    /\ notifications' = << >>
    /\ UNCHANGED <<report_manager, routine_vars>>
    /\ call' = Called("time", "", RetNone)
    /\ UNCHANGED <<gpio_manager, control, entry>>

\* The names commands carry: one of a control file and one of no file.
CommandNames == {"back", "chicken"}

\* Where commands come from: the voice intents and the routines.
Sources == {"voice", "routine"}

\* ControlManager.process_command; the record of the call keeps the command
\* (its direction under wanted, its source under from).
ManagerProcessCommand(control_name, direction, source) ==
    LET r == manager_process_command(control, report_manager, control_name,
                                     direction, source)
    IN  /\ Len(report_manager.pending_events) < MaxEvents
        /\ control' = r.controls
        /\ report_manager' = r.rm
        /\ notifications' = << >>
        /\ call' = [Called("ControlManager.process_command", control_name,
                           r.ret)
                      EXCEPT !.wanted = direction, !.from = source]
        /\ UNCHANGED <<gpio_manager, current_time, entry, routine_vars>>

\* TimeSource.set_time_zone_name on the time source of the report manager.
SetTimeZoneName(time_zone_name) ==
    /\ report_manager' = set_time_zone_name(report_manager, time_zone_name)
    /\ notifications' = << >>
    /\ call' = Called("TimeSource.set_time_zone_name", "",
                      IF time_zone_name \in ValidTimeZoneNames
                      THEN RetNone ELSE RetValueError)
    /\ UNCHANGED <<gpio_manager, control, current_time, entry, routine_vars>>

\* ReportManager.process.
ReportProcess ==
    /\ report_manager' = report_process(report_manager)
    /\ notifications' = << >>
    /\ call' = Called("ReportManager.process", "", RetNone)
    /\ UNCHANGED <<gpio_manager, control, current_time, entry, routine_vars>>

\* The steps of the routine descriptions: every delay, for a control moved
\* up and another moved down.
RoutineSteps ==
    {[delay_ms |-> d, control_name |-> m[1], move_direction |-> m[2]] :
        d \in 0..MaxDelayMs, m \in {<<"back", UP>>, <<"legs", DOWN>>}}

\* The valid descriptions of a routine of the given name.
RoutineDescs(name) ==
    {[name |-> name, is_looping |-> l, steps |-> st] :
        l \in BOOLEAN,
        st \in UNION {[1..n -> RoutineSteps] : n \in 0..MaxSteps}}

\* The history of a Routine made at the time now: when it was made, since
\* when its current step is current, whether process was called, and how
\* many commands it emitted.
NewRoutineEntry(now) ==
    [made |-> now, current_since |-> now, processed |-> FALSE, emitted |-> 0]

\* The history of a Routine after a process call that appended the commands.
RoutineEntryAfter(e, commands, now) ==
    [made |-> e.made,
     current_since |-> IF commands = << >> THEN e.current_since ELSE now,
     processed |-> TRUE,
     emitted |-> IF e.emitted + Len(commands) < MaxEmitted
                 THEN e.emitted + Len(commands) ELSE MaxEmitted]

\* Routine.process; command_list is the list handed in, empty before.
RoutineProcess(name) ==
    LET r == routine_process(routines[name], current_time)
    IN  /\ routines' = [routines EXCEPT ![name] = r.routine]
        /\ command_list' = r.commands
        /\ entry' = [entry EXCEPT
                        ![name] = RoutineEntryAfter(@, r.commands,
                                                    current_time)]
        /\ notifications' = << >>
        /\ call' = Called("Routine.process", name, RetNone)
        /\ UNCHANGED <<gpio_manager, control, current_time, report_manager,
                       descs, routine_order>>

\* The clock moves on by a millisecond between two calls on a Routine.
RoutineAdvanceTime ==
    /\ current_time + NsPerMs <= MaxRoutineTimeNs
    /\ current_time' = current_time + NsPerMs
    /\ notifications' = << >>
    /\ call' = Called("time", "", RetNone)
    /\ UNCHANGED <<gpio_manager, control, entry, report_manager,
                   routine_vars>>

\* RoutineManager.initialize.
RoutineManagerInitialize ==
    /\ descs' = load_descs(NoDescs, 1)
    /\ routines' = NoRoutines
    /\ routine_order' = << >>
    /\ entry' = << >>
    /\ notifications' = << >>
    /\ call' = Called("RoutineManager.initialize", "", RetNone)
    /\ UNCHANGED <<gpio_manager, control, current_time, report_manager,
                   command_list>>

\* RoutineManager.uninitialize.
RoutineManagerUninitialize ==
    /\ descs' = NoDescs
    /\ routines' = NoRoutines
    /\ routine_order' = << >>
    /\ entry' = << >>
    /\ notifications' = << >>
    /\ call' = Called("RoutineManager.uninitialize", "", RetNone)
    /\ UNCHANGED <<gpio_manager, control, current_time, report_manager,
                   command_list>>

\* The names routine commands carry: those of the files and one of no file.
RoutineNames == {"wake", "sleep", "chicken"}

\* RoutineManager.process_command; the record of the call keeps the command
\* (its action under wanted) and the notification returned.
RoutineManagerProcessCommand(action, routine_name) ==
    LET r == routine_process_command(descs, routines, routine_order,
                                     report_manager, action, routine_name,
                                     current_time)
    IN  /\ Len(report_manager.pending_events) < MaxEvents
        /\ routines' = r.routines
        /\ routine_order' = r.order
        /\ report_manager' = r.rm
        /\ entry' = IF r.ret = Started(routine_name)
                    THEN [n \in DOMAIN r.routines |->
                             IF n = routine_name
                             THEN NewRoutineEntry(current_time)
                             ELSE entry[n]]
                    ELSE [n \in DOMAIN r.routines |-> entry[n]]
        /\ notifications' = << >>
        /\ call' = [Called("RoutineManager.process_command", routine_name,
                           r.ret)
                      EXCEPT !.wanted = action]
        /\ UNCHANGED <<gpio_manager, control, current_time, descs,
                       command_list>>

\* RoutineManager.process_routines; command_list and the notification list
\* are the lists handed in, empty before.
RoutineManagerProcessRoutines ==
    LET r == process_routines(routines, routine_order, current_time)
    IN  /\ routines' = r.routines
        /\ routine_order' = r.order
        /\ command_list' = r.commands
        /\ notifications' = r.notes
        /\ entry' = [n \in DOMAIN r.routines |->
                        RoutineEntryAfter(
                            entry[n],
                            routine_process(routines[n],
                                            current_time).commands,
                            current_time)]
        /\ call' = Called("RoutineManager.process_routines", "", RetNone)
        /\ UNCHANGED <<gpio_manager, control, current_time, report_manager,
                       descs>>

\* What MqttClient.pop_command hands out in one tick.
PoppedCommands ==
    {<< >>,
     <<StatusCommand>>,
     <<ControlCommand("back", UP, "voice")>>,
     <<ControlCommand("back", DOWN, "voice")>>,
     <<RoutineCommand("wake", START)>>,
     <<RoutineCommand("sleep", START), ControlCommand("back", DOWN, "voice")>>}

\* Sandman.__process; the record of the call keeps the commands popped
\* (under wanted), command_list the commands dispatched, in their order.
SandmanProcess(popped) ==
    \E r \in {sandman_process(control, gpio_manager, report_manager, descs,
                              routines, routine_order, popped, current_time)} :
        /\ control' = r.controls
        /\ gpio_manager' = r.g
        /\ report_manager' = r.rm
        /\ routines' = r.routines
        /\ routine_order' = r.order
        /\ command_list' = r.commands
        /\ notifications' = r.notes
        /\ call' = [Called("Sandman.process", "", RetNone)
                      EXCEPT !.wanted = popped]
        /\ UNCHANGED <<current_time, entry, descs>>

\* Arguments tried by Control.initialize: every pair of lines with the one
\* valid pair of durations, and the invalid durations with one pair of lines.
ValidLinePairs == {p \in Lines \X Lines : p[1] # p[2]}
InvalidLinePairs == {<<-1, 0>>, <<0, -1>>, <<-1, -1>>, <<0, 0>>, <<1, 1>>}
LineInitArgs ==
    {<<p[1], p[2], MaxMovingMs, MaxCoolDownMs>> :
        p \in ValidLinePairs \cup InvalidLinePairs}
    \cup {<<0, 1, 0, MaxCoolDownMs>>, <<0, 1, MaxMovingMs, -1>>}

\* Arguments tried by Control.initialize: lines 0 and 1 with every pair of
\* valid durations and with each invalid duration, and two invalid pairs of
\* lines with one pair of durations.
DurationInitArgs ==
    {<<0, 1, m, k>> : m \in 1..MaxMovingMs, k \in 0..MaxCoolDownMs}
    \cup {<<0, 1, 0, MaxCoolDownMs>>, <<0, 1, MaxMovingMs, -1>>}
    \cup {<<-1, 0, MaxMovingMs, MaxCoolDownMs>>,
          <<0, 0, MaxMovingMs, MaxCoolDownMs>>}

Lifecycle(args) ==
    \/ GPIOInitialize
    \/ GPIOUninitialize
    \/ \E c \in DOMAIN control, a \in args :
           ControlInitialize(c, a[1], a[2], a[3], a[4])
    \/ \E c \in DOMAIN control : ControlUninitialize(c)

\* The Control state machine of one Control, with its life cycle.
Init == InitWith({"back"})

Next ==
    \/ Lifecycle(DurationInitArgs)
    \/ \E c \in DOMAIN control, state \in State :
           ControlSetDesiredState(c, state)
    \/ \E c \in DOMAIN control : ControlProcess(c)
    \/ AdvanceTime

Spec == Init /\ [][Next]_vars

\* The life cycle of two Controls that share the registry.
InitLines == InitWith(ControlNames)

NextLines == Lifecycle(LineInitArgs)

SpecLines == InitLines /\ [][NextLines]_vars

\* The registry used directly, without Controls.
InitGPIO == InitWith({})

NextGPIO ==
    \/ GPIOInitialize
    \/ GPIOUninitialize
    \/ \E line \in Lines : GPIOAcquireOutputLine(line)
    \/ \E line \in Lines : GPIOReleaseOutputLine(line)
    \/ \E line \in Lines : GPIOSetLineActive(line)
    \/ \E line \in Lines : GPIOSetLineInactive(line)

SpecGPIO == InitGPIO /\ [][NextGPIO]_vars

\* The Controls of a ControlManager: loaded from the files, asked to move
\* up or down, and processed together.
InitManager == InitWith({})

NextManager ==
    \/ GPIOInitialize
    \/ ManagerInitialize
    \/ ManagerUninitialize
    \/ \E c \in DOMAIN control, state \in {MOVE_UP, MOVE_DOWN} :
           ControlSetDesiredState(c, state)
    \/ ManagerProcessControls
    \/ ManagerAdvanceTime

SpecManager == InitManager /\ [][NextManager]_vars

\* The commands of a ControlManager: the Controls are loaded, commands are
\* routed to them and reported, and the Controls are processed.
InitCommands == InitWith({})

NextCommands ==
    \/ GPIOInitialize
    \/ ManagerInitialize
    \/ \E n \in TimeZoneNames : SetTimeZoneName(n)
    \/ \E n \in CommandNames, d \in Direction, src \in Sources :
           ManagerProcessCommand(n, d, src)
    \/ ManagerProcessControls
    \/ ReportProcess

SpecCommands == InitCommands /\ [][NextCommands]_vars

\* One Routine of any description, made at the start of the clock or a
\* millisecond later, and processed as the clock moves on.
InitRoutine ==
    /\ gpio_manager = GPIOManagerNew(FALSE)
    /\ control = NoControls
    /\ notifications = << >>
    /\ call = Called("new", "", RetNone)
    /\ report_manager = ReportManagerNew
    /\ descs = << >>
    /\ command_list = << >>
    /\ \E desc \in RoutineDescs("wake"), now \in {0, NsPerMs} :
           /\ current_time = now
           /\ routines = (desc.name :> RoutineNew(desc, now))
           /\ routine_order = <<desc.name>>
           /\ entry = (desc.name :> NewRoutineEntry(now))

NextRoutine ==
    \/ \E name \in DOMAIN routines : RoutineProcess(name)
    \/ RoutineAdvanceTime

SpecRoutine == InitRoutine /\ [][NextRoutine]_vars

\* The routines of a RoutineManager: the descriptions are loaded, routines
\* are started, stopped and processed as the clock moves on.
InitRoutineManager ==
    /\ gpio_manager = GPIOManagerNew(FALSE)
    /\ control = NoControls
    /\ current_time = 0
    /\ notifications = << >>
    /\ call = Called("new", "", RetNone)
    /\ entry = << >>
    /\ report_manager = ReportManagerNew
    /\ descs = NoDescs
    /\ routines = NoRoutines
    /\ routine_order = << >>
    /\ command_list = << >>

NextRoutineManager ==
    \/ RoutineManagerInitialize
    \/ RoutineManagerUninitialize
    \/ \E action \in Action, name \in RoutineNames :
           RoutineManagerProcessCommand(action, name)
    \/ RoutineManagerProcessRoutines
    \/ RoutineAdvanceTime

SpecRoutineManager == InitRoutineManager /\ [][NextRoutineManager]_vars

\* The journal of a RoutineManager: the descriptions are loaded, the time
\* zone of the time source is set, routines are started, stopped and
\* processed, and the report manager writes its events out.
NextRoutineCommands ==
    \/ RoutineManagerInitialize
    \/ \E n \in TimeZoneNames : SetTimeZoneName(n)
    \/ \E action \in Action, name \in RoutineNames :
           RoutineManagerProcessCommand(action, name)
    \/ RoutineManagerProcessRoutines
    \/ ReportProcess

SpecRoutineCommands == InitRoutineManager /\ [][NextRoutineCommands]_vars

\* The main loop of Sandman after Sandman.initialize: the registry is
\* initialized, the Controls and the routine descriptions are loaded and the
\* time zone is set; ticks follow one another as the clock moves on.
InitSandman ==
    LET g == gpio_initialize(GPIOManagerNew(FALSE), TRUE)
        loaded == manager_initialize(
                      NoControls, g,
                      [i \in 1..Len(ControlFiles) |-> <<TRUE, TRUE>>])
    IN  /\ gpio_manager = loaded.g
        /\ control = loaded.controls
        /\ current_time = 0
        /\ notifications = << >>
        /\ call = Called("new", "", RetNone)
        /\ entry = << >>
        /\ report_manager \in
               {set_time_zone_name(ReportManagerNew, n) :
                   n \in ValidTimeZoneNames}
        /\ descs = load_descs(NoDescs, 1)
        /\ routines = NoRoutines
        /\ routine_order = << >>
        /\ command_list = << >>

NextSandman ==
    \/ \E popped \in PoppedCommands : SandmanProcess(popped)
    \/ ManagerAdvanceTime

SpecSandman == InitSandman /\ [][NextSandman]_vars

\* The parsers of the persisted records: each call parses one file.
ControlJsons ==
    JsonObjects({"name", "upGPIOLine", "downGPIOLine", "movingDurationMS",
                 "coolDownDurationMS"})

StepJsons == JsonObjects({"delayMS", "controlName", "moveDirection"})

\* The elements of the steps of a description file: a full step, a step
\* without a delay, a step whose direction is no string, and a string.
StepSamples ==
    { [k \in {"delayMS", "controlName", "moveDirection"} |->
          CASE k = "delayMS" -> JsonInt(1)
            [] k = "controlName" -> JsonStr("back")
            [] k = "moveDirection" -> JsonStr("down")],
      [k \in {"controlName", "moveDirection"} |->
          IF k = "controlName" THEN JsonStr("back") ELSE JsonStr("up")],
      [k \in {"delayMS", "controlName", "moveDirection"} |->
          CASE k = "delayMS" -> JsonInt(0)
            [] k = "controlName" -> JsonStr("legs")
            [] k = "moveDirection" -> JsonInt(0)],
      JsonStr("up") }

StepsValues ==
    {JsonInt(0)} \cup
        {JsonList(l) : l \in UNION {[1..n -> StepSamples] : n \in 0..MaxJsonSteps}}

DescJsons ==
    UNION { {[k \in K \cup S |-> IF k = "steps" THEN steps ELSE f[k]] :
                 f \in [K -> JsonValues], steps \in StepsValues} :
            K \in SUBSET {"name", "isLooping"}, S \in {{}, {"steps"}} }

Parsed(op, json, ret) ==
    [Called(op, "", RetNone) EXCEPT !.wanted = json, !.ret = ret]

\* A file of the controls or the routines directory, or an element of the
\* steps of a description.
File(kind, json) == [kind |-> kind, json |-> json]

ParseControlConfig ==
    /\ entry.kind = "ctl"
    /\ call' = Parsed("ControlConfig.parse_from_file", entry.json,
                      config_parse_from_file(entry.json))
    /\ UNCHANGED <<gpio_manager, control, current_time, notifications, entry,
                   report_manager, routine_vars>>

LoadStep ==
    /\ entry.kind = "step"
    /\ call' = Parsed("Step.load_from_json", entry.json,
                      load_from_json(entry.json))
    /\ UNCHANGED <<gpio_manager, control, current_time, notifications, entry,
                   report_manager, routine_vars>>

ParseRoutineDesc ==
    /\ entry.kind = "rtn"
    /\ call' = Parsed("RoutineDesc.parse_from_file", entry.json,
                      desc_parse_from_file(entry.json))
    /\ UNCHANGED <<gpio_manager, control, current_time, notifications, entry,
                   report_manager, routine_vars>>

InitParse ==
    /\ gpio_manager = GPIOManagerNew(FALSE)
    /\ control = NoControls
    /\ current_time = 0
    /\ notifications = << >>
    /\ call = Called("new", "", RetNone)
    /\ report_manager = ReportManagerNew
    /\ descs = NoDescs
    /\ routines = NoRoutines
    /\ routine_order = << >>
    /\ command_list = << >>
    /\ \/ \E json \in ControlJsons : entry = File("ctl", json)
       \/ \E json \in StepJsons : entry = File("step", json)
       \/ \E json \in DescJsons : entry = File("rtn", json)

NextParse ==
    \/ ParseControlConfig
    \/ LoadStep
    \/ ParseRoutineDesc

SpecParse == InitParse /\ [][NextParse]_vars

\* One initialized Control that is asked to move and is processed again and
\* again while the clock runs on without end. Only differences of times are
\* read, so a clock that has reached MaxSettleTimeNs advances by moving the
\* recorded times back instead; a time that would leave the range stays at
\* 0, from where every duration has elapsed.
MaxSettleTimeNs == (MaxMovingMs + MaxCoolDownMs + 1) * NsPerMs

Earlier(time) ==
    IF time = NoTime THEN NoTime
    ELSE IF time < StepNs THEN 0
    ELSE time - StepNs

SettleAdvanceTime ==
    /\ IF current_time + StepNs <= MaxSettleTimeNs
       THEN /\ current_time' = current_time + StepNs
            /\ UNCHANGED <<control, entry>>
       ELSE /\ current_time' = current_time
            /\ control' = [c \in DOMAIN control |->
                              [control[c] EXCEPT
                                  !.state_start_time = Earlier(@)]]
            /\ entry' = [c \in DOMAIN entry |->
                            [entry[c] EXCEPT !.time = Earlier(@)]]
    /\ notifications' = << >>
    /\ call' = Called("time", "", RetNone)
    /\ UNCHANGED <<gpio_manager, report_manager, routine_vars>>

InitSettle ==
    /\ \E live \in BOOLEAN, m \in 1..MaxMovingMs, k \in 0..MaxCoolDownMs :
           LET g == gpio_initialize(GPIOManagerNew(live), TRUE)
               r == control_initialize(ControlNew, g, 0, 1, m, k, TRUE, TRUE)
           IN  /\ gpio_manager = r.g
               /\ control = [c \in {"back"} |-> r.ctl]
    /\ current_time = 0
    /\ notifications = << >>
    /\ call = Called("new", "", RetNone)
    /\ entry = [c \in {"back"} |-> NewEntry]
    /\ report_manager = ReportManagerNew
    /\ descs = << >>
    /\ routines = << >>
    /\ routine_order = << >>
    /\ command_list = << >>

NextSettle ==
    \/ \E c \in DOMAIN control, state \in State :
           ControlSetDesiredState(c, state)
    \/ \E c \in DOMAIN control : ControlProcess(c)
    \/ SettleAdvanceTime

\* The main loop processes the Controls on every pass and the clock runs on.
SpecSettle ==
    /\ InitSettle
    /\ [][NextSettle]_vars
    /\ WF_vars(\E c \in DOMAIN control : ControlProcess(c))
    /\ WF_vars(SettleAdvanceTime)

\* A RoutineManager that holds one description and is processed again and
\* again while the clock runs on without end: a clock that has reached
\* MaxRunTimeNs advances by moving the recorded times back instead; a time
\* that would leave the range stays at 0, from where every delay has elapsed.
MaxRunTimeNs == (MaxDelayMs + 1) * NsPerMs

EarlierMs(time) == IF time < NsPerMs THEN 0 ELSE time - NsPerMs

\* The description loaded: it loops or not and has up to MaxSteps steps,
\* which move the two controls in turn after delays that start at any value
\* and grow from step to step, back to 0 after MaxDelayMs.
RunDescs ==
    {[name |-> "wake", is_looping |-> l,
      steps |-> [i \in 1..n |->
                    Step((d + i - 1) % (MaxDelayMs + 1),
                         IF i % 2 = 1 THEN "back" ELSE "legs",
                         IF i % 2 = 1 THEN UP ELSE DOWN)]] :
        l \in BOOLEAN, n \in 0..MaxSteps, d \in 0..MaxDelayMs}

RunAdvanceTime ==
    /\ IF current_time + NsPerMs <= MaxRunTimeNs
       THEN /\ current_time' = current_time + NsPerMs
            /\ UNCHANGED <<routines, entry>>
       ELSE /\ current_time' = current_time
            /\ routines' = [n \in DOMAIN routines |->
                               [routines[n] EXCEPT
                                   !.step_start_time = EarlierMs(@)]]
            /\ entry' = [n \in DOMAIN entry |->
                            [entry[n] EXCEPT
                                !.made = EarlierMs(@),
                                !.current_since = EarlierMs(@)]]
    /\ notifications' = << >>
    /\ call' = Called("time", "", RetNone)
    /\ UNCHANGED <<gpio_manager, control, report_manager, descs,
                   routine_order, command_list>>

InitRun ==
    /\ gpio_manager = GPIOManagerNew(FALSE)
    /\ control = NoControls
    /\ current_time = 0
    /\ notifications = << >>
    /\ call = Called("new", "", RetNone)
    /\ entry = << >>
    /\ report_manager = ReportManagerNew
    /\ \E desc \in RunDescs : descs = (desc.name :> desc)
    /\ routines = NoRoutines
    /\ routine_order = << >>
    /\ command_list = << >>

NextRun ==
    \/ \E action \in Action, name \in {"wake", "chicken"} :
           RoutineManagerProcessCommand(action, name)
    \/ RoutineManagerProcessRoutines
    \/ RunAdvanceTime

\* The main loop processes the routines on every pass and the clock runs on.
SpecRun ==
    /\ InitRun
    /\ [][NextRun]_vars
    /\ WF_vars(RoutineManagerProcessRoutines)
    /\ WF_vars(RunAdvanceTime)

TypeOK ==
    /\ gpio_manager.line_requests \subseteq Lines
    /\ \A c \in DOMAIN control : control[c].state \in State
    /\ current_time >= 0
    /\ \/ current_time <= MaxTimeNs
       \/ current_time <= MaxManagerTimeNs
       \/ current_time <= MaxRoutineTimeNs

\* ------------------------------------------------------------------- claims
ControlLines(c) == {control[c].up_gpio_line, control[c].down_gpio_line}

\* Every initialized Control has both lines acquired, and no line belongs to
\* two initialized Controls.
LinesOwned ==
    /\ \A c \in DOMAIN control :
           control[c].initialized = TRUE =>
               ControlLines(c) \subseteq gpio_manager.line_requests
    /\ \A c, d \in DOMAIN control :
           (c # d /\ control[c].initialized = TRUE
                  /\ control[d].initialized = TRUE) =>
               ControlLines(c) \cap ControlLines(d) = {}

ValidInitArgs(a) ==
    a[1] >= 0 /\ a[2] >= 0 /\ a[1] # a[2] /\ a[3] >= 1 /\ a[4] >= 0

\* C1 as stated: in every state reached by Control.initialize /
\* Control.uninitialize / GPIOManager.initialize / GPIOManager.uninitialize
\* calls, every initialized Control has both of its lines in the acquired set
\* and no line belongs to two initialized Controls.
C1_Original == LinesOwned

\* C1 as amended: every call keeps "every initialized Control has both of
\* its lines in the acquired set and no line belongs to two initialized
\* Controls", except a GPIOManager.uninitialize made while a Control is
\* initialized.
C1_OwnershipKept ==
    [][ ( /\ LinesOwned
          /\ ~( /\ call'.op = "GPIOManager.uninitialize"
                /\ \E c \in DOMAIN control : control[c].initialized = TRUE ) )
        => LinesOwned' ]_vars

\* Two Controls are initialized on four different acquired lines.
C1_Witness ==
    /\ call.op = "Control.initialize"
    /\ call.ret = RetTrue
    /\ \A c \in ControlNames : control[c].initialized = TRUE
    /\ Cardinality(gpio_manager.line_requests) = 4
    /\ LinesOwned

\* C2: in every reachable state, Control.initialize of an uninitialized
\* Control with valid parameters, while one of the two lines is already
\* acquired, returns false, leaves the acquired set as it was (an up line it
\* acquired is released again) and leaves the Control uninitialized; the
\* other Controls keep their lines.
C2_FailedAcquisitionRolledBack ==
    \A c \in DOMAIN control, a \in LineInitArgs, hw \in HardwareOutcomes :
        ( /\ ValidInitArgs(a)
          /\ control[c].initialized = FALSE
          /\ {a[1], a[2]} \cap gpio_manager.line_requests # {} )
        => LET r == InitializeOutcome(c, a, hw)
           IN  /\ r.ret = FALSE
               /\ r.g.line_requests = gpio_manager.line_requests
               /\ r.ctl.initialized = FALSE
               /\ \A d \in DOMAIN control \ {c} :
                      control[d].initialized = TRUE =>
                          ControlLines(d) \cap gpio_manager.line_requests
                              \subseteq r.g.line_requests

\* The initialize of "legs" failed on its down line, which "back" holds,
\* after its up line was free: the acquired set is again that of "back".
C2_Witness ==
    /\ call = Called("Control.initialize", "legs", RetFalse)
    /\ control["legs"].initialized = FALSE
    /\ control["back"].initialized = TRUE
    /\ control["legs"].down_gpio_line \in ControlLines("back")
    /\ control["legs"].up_gpio_line \in Lines \ ControlLines("back")
    /\ gpio_manager.line_requests = ControlLines("back")

InitializeRefused(c, r) ==
    /\ r.ret = FALSE
    /\ r.g.line_requests = gpio_manager.line_requests
    /\ r.ctl = control[c]

InitializeGranted(a, r) ==
    /\ r.ret = TRUE
    /\ r.g.line_requests = gpio_manager.line_requests \cup {a[1], a[2]}

\* C3 as stated: in every reachable state, Control.initialize returns false
\* and changes neither the acquired set nor the Control's initialized flag,
\* lines and durations when the Control is initialized or a parameter is
\* invalid; with valid parameters and both lines free it returns true and
\* exactly the two lines are added to the acquired set.
C3_Original ==
    \A c \in DOMAIN control, a \in LineInitArgs, hw \in HardwareOutcomes :
        LET r == InitializeOutcome(c, a, hw)
        IN  IF control[c].initialized = TRUE \/ ~ValidInitArgs(a)
            THEN InitializeRefused(c, r)
            ELSE {a[1], a[2]} \cap gpio_manager.line_requests = {}
                     => InitializeGranted(a, r)

\* C3 as amended: the same, the second half holding when moreover the
\* registry is initialized and the hardware grants both line requests.
C3_ValidationThenAcquisition ==
    \A c \in DOMAIN control, a \in LineInitArgs, hw \in HardwareOutcomes :
        LET r == InitializeOutcome(c, a, hw)
        IN  IF control[c].initialized = TRUE \/ ~ValidInitArgs(a)
            THEN InitializeRefused(c, r)
            ELSE ( /\ {a[1], a[2]} \cap gpio_manager.line_requests = {}
                   /\ gpio_manager.initialized = TRUE
                   /\ hw = <<TRUE, TRUE>> )
                     => InitializeGranted(a, r)

\* One Control was just initialized and the acquired set is its two lines.
C3_Witness ==
    /\ call.op = "Control.initialize"
    /\ call.ret = RetTrue
    /\ control[call.control].initialized = TRUE
    /\ \A c \in DOMAIN control \ {call.control} :
           control[c].initialized = FALSE
    /\ gpio_manager.line_requests = ControlLines(call.control)

\* The step is a process call made on the initialized Control c.
Processed(c) ==
    /\ call'.op = "Control.process"
    /\ call'.control = c
    /\ call'.ret = RetNone

Moving == {MOVE_UP, MOVE_DOWN}

Opposite(state) == IF state = MOVE_UP THEN MOVE_DOWN ELSE MOVE_UP

\* The time, in ns, since the Control c made its last transition.
ElapsedNs(c) == current_time - entry[c].time

\* C4: a set_desired_state call changes neither the state of the Control, nor
\* the GPIO line levels, nor the state-entry timestamp, and emits no
\* notification; the state of a Control changes only in a process call made
\* on it.
C4_DesiredStateDeferred ==
    [][ \A c \in DOMAIN control :
          /\ ( call'.op = "Control.set_desired_state" /\ call'.control = c )
                => /\ control'[c].state = control[c].state
                   /\ control'[c].state_start_time = control[c].state_start_time
                   /\ gpio_manager'.line_values = gpio_manager.line_values
                   /\ notifications' = << >>
          /\ control'[c].state # control[c].state => Processed(c) ]_vars

\* A request to move up was recorded and the Control is still IDLE.
C4_Witness ==
    \E c \in DOMAIN control :
        /\ call.op = "Control.set_desired_state" /\ call.control = c
        /\ call.ret = RetNone
        /\ control[c].state = IDLE
        /\ control[c].desired_state = MOVE_UP

\* C5: a process call on an initialized Control in IDLE puts it in the
\* desired state when that is MOVE_UP or MOVE_DOWN, at any time, and leaves
\* it in IDLE when the desired state is IDLE, at any time.
C5_IdleLeavesOnRequestOnly ==
    [][ \A c \in DOMAIN control :
          ( Processed(c) /\ control[c].state = IDLE )
            => /\ control[c].desired_state \in Moving
                    => control'[c].state = control[c].desired_state
               /\ control[c].desired_state = IDLE
                    => control'[c].state = IDLE ]_vars

\* A process call took the Control from IDLE to the requested MOVE_DOWN at a
\* time later than 0.
C5_Witness ==
    \E c \in DOMAIN control :
        /\ call.op = "Control.process" /\ call.control = c
        /\ call.from = IDLE /\ call.wanted = MOVE_DOWN
        /\ control[c].state = MOVE_DOWN
        /\ current_time > 0

\* C6: a process call on a Control in a moving state whose desired state is
\* that state leaves the state unchanged when the time since the state was
\* entered is less than moving_duration_ms; when it is greater than or equal
\* to moving_duration_ms the call forces the desired state to IDLE and moves
\* the Control to COOL_DOWN.
C6_MovingUntilDuration ==
    [][ \A c \in DOMAIN control :
          ( /\ Processed(c)
            /\ control[c].state \in Moving
            /\ control[c].desired_state = control[c].state )
            => IF ElapsedNs(c) < control[c].moving_duration_ms * NsPerMs
               THEN /\ control'[c].state = control[c].state
                    /\ control'[c].desired_state = control[c].desired_state
               ELSE /\ control'[c].state = COOL_DOWN
                    /\ control'[c].desired_state = IDLE ]_vars

\* A process call made exactly moving_duration_ms after time 0 found the
\* Control moving up as desired and moved it to COOL_DOWN.
C6_Witness ==
    \E c \in DOMAIN control :
        /\ call.op = "Control.process" /\ call.control = c
        /\ call.from = MOVE_UP /\ call.wanted = MOVE_UP
        /\ control[c].state = COOL_DOWN
        /\ control[c].desired_state = IDLE
        /\ current_time = control[c].moving_duration_ms * NsPerMs

\* C7: no step changes the state of a Control that is in COOL_DOWN while the
\* time since it entered COOL_DOWN is less than cool_down_duration_ms.
C7_CoolDownNotInterrupted ==
    [][ \A c \in DOMAIN control :
          ( /\ control[c].state = COOL_DOWN
            /\ ElapsedNs(c) < control[c].cool_down_duration_ms * NsPerMs )
            => control'[c].state = COOL_DOWN ]_vars

\* A process call found the Control in COOL_DOWN with a request to move up
\* and left it in COOL_DOWN.
C7_Witness ==
    \E c \in DOMAIN control :
        /\ call.op = "Control.process" /\ call.control = c
        /\ call.from = COOL_DOWN /\ call.wanted = MOVE_UP
        /\ control[c].state = COOL_DOWN
        /\ control[c].desired_state = MOVE_UP

\* C8: a process call on a Control in COOL_DOWN made when the time since it
\* entered COOL_DOWN is greater than or equal to cool_down_duration_ms moves
\* it to IDLE and forces the desired state to IDLE; a process call on a
\* Control in IDLE with desired state IDLE leaves both.
C8_CoolDownEndsIdle ==
    [][ \A c \in DOMAIN control :
          /\ ( /\ Processed(c)
               /\ control[c].state = COOL_DOWN
               /\ ElapsedNs(c) >= control[c].cool_down_duration_ms * NsPerMs )
                => /\ control'[c].state = IDLE
                   /\ control'[c].desired_state = IDLE
          /\ ( /\ Processed(c)
               /\ control[c].state = IDLE
               /\ control[c].desired_state = IDLE )
                => /\ control'[c].state = IDLE
                   /\ control'[c].desired_state = IDLE ]_vars

\* A process call found the Control in COOL_DOWN with a request to move up
\* and left it in IDLE with desired state IDLE.
C8_Witness ==
    \E c \in DOMAIN control :
        /\ call.op = "Control.process" /\ call.control = c
        /\ call.from = COOL_DOWN /\ call.wanted = MOVE_UP
        /\ control[c].state = IDLE
        /\ control[c].desired_state = IDLE

\* C9: every step that puts a Control in IDLE finds it in COOL_DOWN, and a
\* process call on a Control in a moving state with desired state IDLE puts
\* it in COOL_DOWN, whatever the time.
C9_StopThroughCoolDown ==
    [][ \A c \in DOMAIN control :
          /\ ( control'[c].state = IDLE /\ control[c].state # IDLE )
                => control[c].state = COOL_DOWN
          /\ ( /\ Processed(c)
               /\ control[c].state \in Moving
               /\ control[c].desired_state = IDLE )
                => control'[c].state = COOL_DOWN ]_vars

\* At time 0 a process call found the Control moving up with a stop request
\* and put it in COOL_DOWN.
C9_Witness ==
    \E c \in DOMAIN control :
        /\ call.op = "Control.process" /\ call.control = c
        /\ call.from = MOVE_UP /\ call.wanted = IDLE
        /\ control[c].state = COOL_DOWN
        /\ current_time = 0

\* C10: a process call on a Control in a moving state whose desired state is
\* the opposite moving state, made less than moving_duration_ms after the
\* state was entered, puts it in the opposite state and restarts the timer
\* at the current time; a Control that entered its moving state from the
\* opposite one stays in it as long as less than moving_duration_ms has
\* elapsed since that switch, and goes to COOL_DOWN once it has.
C10_SwitchRestartsTimer ==
    [][ \A c \in DOMAIN control :
          /\ ( /\ Processed(c)
               /\ control[c].state \in Moving
               /\ control[c].desired_state = Opposite(control[c].state)
               /\ ElapsedNs(c) < control[c].moving_duration_ms * NsPerMs )
                => /\ control'[c].state = control[c].desired_state
                   /\ control'[c].desired_state = control[c].desired_state
                   /\ control'[c].state_start_time = current_time
          /\ ( /\ Processed(c)
               /\ control[c].state \in Moving
               /\ entry[c].from = Opposite(control[c].state)
               /\ control[c].desired_state = control[c].state )
                => ( control'[c].state = control[c].state
                       <=> ElapsedNs(c) <
                               control[c].moving_duration_ms * NsPerMs ) ]_vars

\* A Control switched from moving down to moving up later than time 0; half
\* a millisecond before the moving duration has elapsed since the switch, and
\* not less than the moving duration after time 0, a process call leaves it
\* moving up.
C10_Witness ==
    \E c \in DOMAIN control :
        /\ call.op = "Control.process" /\ call.control = c
        /\ call.from = MOVE_UP /\ call.wanted = MOVE_UP
        /\ control[c].state = MOVE_UP
        /\ entry[c].from = MOVE_DOWN
        /\ entry[c].time > 0
        /\ control[c].state_start_time = entry[c].time
        /\ ElapsedNs(c) = control[c].moving_duration_ms * NsPerMs - StepNs
        /\ current_time >= control[c].moving_duration_ms * NsPerMs

\* C11 as stated: a Control that leaves a moving state goes to COOL_DOWN (it
\* enters no moving state, same or opposite, first), and it leaves COOL_DOWN
\* only for IDLE and only once cool_down_duration_ms has elapsed since it
\* entered COOL_DOWN.
C11_Original ==
    [][ \A c \in DOMAIN control :
          /\ ( control[c].state \in Moving
               /\ control'[c].state # control[c].state )
                => control'[c].state = COOL_DOWN
          /\ ( control[c].state = COOL_DOWN
               /\ control'[c].state # COOL_DOWN )
                => /\ control'[c].state = IDLE
                   /\ ElapsedNs(c) >=
                          control[c].cool_down_duration_ms * NsPerMs ]_vars

\* C11 as amended: a Control that stops moving goes to COOL_DOWN, it leaves
\* COOL_DOWN only for IDLE and only once cool_down_duration_ms has elapsed
\* since it entered COOL_DOWN, and a Control that is not moving enters a
\* moving state only from IDLE; a moving Control may switch to the opposite
\* moving state directly.
C11_CoolDownBetweenMovements ==
    [][ \A c \in DOMAIN control :
          /\ ( control[c].state \in Moving
               /\ control'[c].state \notin Moving )
                => control'[c].state = COOL_DOWN
          /\ ( control[c].state = COOL_DOWN
               /\ control'[c].state # COOL_DOWN )
                => /\ control'[c].state = IDLE
                   /\ ElapsedNs(c) >=
                          control[c].cool_down_duration_ms * NsPerMs
          /\ ( control[c].state \notin Moving
               /\ control'[c].state \in Moving )
                => control[c].state = IDLE ]_vars

\* A Control that moved, then spent its cool down duration of at least 1 ms
\* in COOL_DOWN, has entered a moving state again from IDLE.
C11_Witness ==
    \E c \in DOMAIN control :
        /\ call.op = "Control.process" /\ call.control = c
        /\ call.from = IDLE
        /\ control[c].state \in Moving
        /\ entry[c].rested = TRUE
        /\ control[c].cool_down_duration_ms >= 1
        /\ current_time >= control[c].cool_down_duration_ms * NsPerMs

\* The last operation was set_desired_state(COOL_DOWN) on the initialized
\* Control c.
CoolDownAsked(c) ==
    /\ call.op = "Control.set_desired_state"
    /\ call.control = c
    /\ call.ret = RetNone
    /\ call.wanted = COOL_DOWN

C13_UninitializedUseRaises ==
    [][ \A c \in DOMAIN control :
          ( /\ call'.op \in {"Control.set_desired_state", "Control.process"}
            /\ call'.control = c
            /\ control[c].initialized = FALSE )
            => /\ call'.ret = RetValueError
               /\ control' = control
               /\ gpio_manager' = gpio_manager
               /\ notifications' = << >> ]_vars

\* process raised on a Control that was uninitialized while it was moving up
\* with a request to move down: it is still in MOVE_UP and the request is
\* still recorded.
C13_Witness ==
    \E c \in DOMAIN control :
        /\ call = Called("Control.process", c, RetValueError)
        /\ control[c].initialized = FALSE
        /\ control[c].state = MOVE_UP
        /\ control[c].desired_state = MOVE_DOWN

\* C14: in every reachable state, Control.uninitialize of a Control that is
\* not initialized returns false and changes neither the Control nor the
\* registry; of an initialized Control it removes the Control's two lines
\* from the acquired set (those of them that are in it), leaves the Control
\* uninitialized, and returns true exactly when both lines were in the
\* acquired set.
C14_UninitializeAlwaysEnds ==
    \A c \in DOMAIN control :
        LET r == UninitializeOutcome(c)
        IN  IF control[c].initialized = FALSE
            THEN /\ r.ret = FALSE
                 /\ r.ctl = control[c]
                 /\ r.g = gpio_manager
            ELSE /\ r.ctl.initialized = FALSE
                 /\ r.g.line_requests =
                        gpio_manager.line_requests \ ControlLines(c)
                 /\ r.ret = ( ControlLines(c) \subseteq
                                 gpio_manager.line_requests )

\* The uninitialize of "back", one of whose two lines the registry had
\* already released and the other of which "legs" had acquired since,
\* returned false: "back" is uninitialized and the line is released.
C14_Witness ==
    /\ call = Called("Control.uninitialize", "back", RetFalse)
    /\ control["back"].initialized = FALSE
    /\ control["legs"].initialized = TRUE
    /\ gpio_manager.initialized = TRUE
    /\ Cardinality(ControlLines("legs") \cap gpio_manager.line_requests) = 1
    /\ ControlLines("legs") \ gpio_manager.line_requests
           \subseteq ControlLines("back")
    /\ ControlLines("back") \cap gpio_manager.line_requests = {}

\* C15 as stated: every Control.initialize call that returns true leaves the
\* Control in state IDLE with desired state IDLE, and a process call that
\* follows it directly leaves the Control in IDLE.
C15_Original ==
    [][ \A c \in DOMAIN control :
          /\ ( /\ call'.op = "Control.initialize"
               /\ call'.control = c
               /\ call'.ret = RetTrue )
                => /\ control'[c].state = IDLE
                   /\ control'[c].desired_state = IDLE
          /\ ( /\ call.op = "Control.initialize"
               /\ call.control = c
               /\ call.ret = RetTrue
               /\ Processed(c) )
                => control'[c].state = IDLE ]_vars

\* The logical level of a line: set_line_active drives it INACTIVE and
\* set_line_inactive, like the request that acquires it, drives it ACTIVE.
LineActive(line) == gpio_manager.line_values[line] = INACTIVE
LineInactive(line) == gpio_manager.line_values[line] = ACTIVE

\* The levels of the two lines of the Control c match its state.
LevelsMatchState(c) ==
    LET up == control[c].up_gpio_line
        down == control[c].down_gpio_line
    IN  CASE control[c].state = MOVE_UP ->
                 LineActive(up) /\ LineInactive(down)
          [] control[c].state = MOVE_DOWN ->
                 LineActive(down) /\ LineInactive(up)
          [] OTHER -> LineInactive(up) /\ LineInactive(down)

\* C16 as stated: in every reachable state of a registry in live mode (in
\* simulation mode no level is driven), the levels of the two lines of an
\* initialized Control that holds them match its state: up active and down
\* inactive in MOVE_UP, down active and up inactive in MOVE_DOWN, both
\* inactive in COOL_DOWN and in IDLE.
C16_Original ==
    \A c \in DOMAIN control :
        ( /\ gpio_manager.is_live_mode = TRUE
          /\ control[c].initialized = TRUE
          /\ ControlLines(c) \subseteq gpio_manager.line_requests )
        => LevelsMatchState(c)

\* The notification of a transition of the Control c into the state to.
Notification(c, to) ==
    CASE to = MOVE_UP -> << <<"Raising the", c>> >>
      [] to = MOVE_DOWN -> << <<"Lowering the", c>> >>
      [] to = COOL_DOWN -> << <<c, "stopped">> >>
      [] OTHER -> << >>

\* The notifications of the transitions that lead from the Controls old to
\* the Controls new, for the Controls named, in that order.
RECURSIVE TransitionNotes(_, _, _)
TransitionNotes(old, new, names) ==
    IF names = << >> THEN << >>
    ELSE LET c == Head(names)
         IN  ( IF new[c].state = old[c].state
               THEN << >>
               ELSE Notification(c, new[c].state) )
             \o TransitionNotes(old, new, Tail(names))

\* C17: a ControlManager.process_controls call leaves every Control of the
\* manager as one process call on it leaves it, and the notifications it
\* appends are, Control after Control, one notification for a transition
\* into MOVE_UP ("Raising the"), MOVE_DOWN ("Lowering the") or COOL_DOWN
\* ("stopped"), and none for a transition into IDLE or for no transition; a
\* Control that is in the moving state it desires goes to COOL_DOWN exactly
\* when its own moving duration has elapsed.
C17_NotificationsPerTransition ==
    [][ call'.op = "ControlManager.process_controls"
        => /\ DOMAIN control' = DOMAIN control
           /\ notifications' =
                  TransitionNotes(control, control', control_names(control))
           /\ \A c \in DOMAIN control :
                  /\ control'[c] =
                         process(c, control[c], gpio_manager, current_time).ctl
                  /\ ( /\ control[c].state \in Moving
                       /\ control[c].desired_state = control[c].state )
                        => ( control'[c].state = COOL_DOWN
                               <=> ElapsedNs(c) >=
                                       control[c].moving_duration_ms * NsPerMs )
      ]_vars

\* "back" and "legs" began to move at the same time; the process_controls
\* call made when the moving duration of "back" has elapsed, and that of
\* "legs" has not, stopped "back" only, with the one notification.
C17_Witness ==
    /\ call.op = "ControlManager.process_controls"
    /\ DOMAIN control = {"back", "legs"}
    /\ notifications = << <<"back", "stopped">> >>
    /\ control["back"].state = COOL_DOWN
    /\ entry["back"].from \in Moving
    /\ control["legs"].state \in Moving
    /\ control["legs"].state_start_time
           = current_time - control["back"].moving_duration_ms * NsPerMs
    /\ control["back"].moving_duration_ms < control["legs"].moving_duration_ms

\* The acquire_output_line call is refused and changes nothing.
AcquireRefused(r) ==
    /\ r.ret = FALSE
    /\ r.g = gpio_manager

\* C18 as stated: in every reachable state, acquire_output_line returns
\* false and leaves the acquired set unchanged when the registry is not
\* initialized or the line is already acquired; otherwise it returns true
\* and adds exactly that line to the acquired set.
C18_Original ==
    \A line \in Lines, hw_ok \in LineOutcomes :
        LET r == acquire_output_line(gpio_manager, line, hw_ok)
        IN  IF \/ gpio_manager.initialized = FALSE
               \/ line \in gpio_manager.line_requests
            THEN AcquireRefused(r)
            ELSE /\ r.ret = TRUE
                 /\ r.g.line_requests =
                        gpio_manager.line_requests \cup {line}

\* C18 as amended: the same, the call also returning false and leaving the
\* acquired set unchanged when, in live mode, the hardware refuses the
\* request.
C18_AcquireOnlyFreeLines ==
    \A line \in Lines, hw_ok \in LineOutcomes :
        LET r == acquire_output_line(gpio_manager, line, hw_ok)
        IN  IF \/ gpio_manager.initialized = FALSE
               \/ line \in gpio_manager.line_requests
               \/ hw_ok = FALSE
            THEN AcquireRefused(r)
            ELSE /\ r.ret = TRUE
                 /\ r.g.line_requests =
                        gpio_manager.line_requests \cup {line}

\* A line was just released while another line is held: it was acquired
\* and released before, and acquiring it now returns true and adds it.
C18_Witness ==
    /\ call.op = "GPIOManager.release_output_line"
    /\ call.ret = RetTrue
    /\ gpio_manager.line_requests # {}
    /\ call.line \notin gpio_manager.line_requests
    /\ LET r == acquire_output_line(gpio_manager, call.line, TRUE)
       IN  /\ r.ret = TRUE
           /\ r.g.line_requests =
                  gpio_manager.line_requests \cup {call.line}

\* C19: in every reachable state, release_output_line, set_line_active and
\* set_line_inactive return false and change nothing for a line that is not
\* in the acquired set; for a line that is in it, release_output_line
\* returns true and removes exactly that line, and set_line_active and
\* set_line_inactive return true and leave the acquired set as it is.
C19_OnlyAcquiredLinesUsed ==
    \A line \in Lines :
        LET released == release_output_line(gpio_manager, line)
            active == set_line_active(gpio_manager, line)
            inactive == set_line_inactive(gpio_manager, line)
        IN  IF line \notin gpio_manager.line_requests
            THEN \A r \in {released, active, inactive} :
                     r.ret = FALSE /\ r.g = gpio_manager
            ELSE /\ released.ret = TRUE
                 /\ released.g.line_requests =
                        gpio_manager.line_requests \ {line}
                 /\ \A r \in {active, inactive} :
                        /\ r.ret = TRUE
                        /\ r.g.line_requests = gpio_manager.line_requests

\* In live mode set_line_active returned true for one of two acquired
\* lines, which is now active; releasing it returns true and leaves the
\* other line acquired.
C19_Witness ==
    /\ call.op = "GPIOManager.set_line_active"
    /\ call.ret = RetTrue
    /\ call.line \in gpio_manager.line_requests
    /\ Cardinality(gpio_manager.line_requests) = 2
    /\ LineActive(call.line)
    /\ LET r == release_output_line(gpio_manager, call.line)
       IN  /\ r.ret = TRUE
           /\ r.g.line_requests = gpio_manager.line_requests \ {call.line}

\* The registry g holds no line and refuses every operation on a line,
\* whatever the hardware would answer.
RefusesAll(g) ==
    /\ acquired_lines(g) = {}
    /\ \A line \in Lines :
           /\ release_output_line(g, line).ret = FALSE
           /\ set_line_active(g, line).ret = FALSE
           /\ set_line_inactive(g, line).ret = FALSE
           /\ \A hw_ok \in BOOLEAN :
                  acquire_output_line(g, line, hw_ok).ret = FALSE

\* C20: in every reachable state, GPIOManager.uninitialize leaves a registry
\* that holds no line and refuses release, set_line_active,
\* set_line_inactive and acquire for every line; the registry is in that
\* condition after every GPIOManager.uninitialize call and as long as it is
\* not initialized.
C20_UninitializeReleasesAll ==
    /\ RefusesAll(gpio_uninitialize(gpio_manager))
    /\ call.op = "GPIOManager.uninitialize"
           => gpio_manager.initialized = FALSE
    /\ gpio_manager.initialized = FALSE => RefusesAll(gpio_manager)

\* GPIOManager.uninitialize was called while two Controls were initialized
\* on four lines: no line is acquired any more.
C20_Witness ==
    /\ call.op = "GPIOManager.uninitialize"
    /\ \A c \in ControlNames : control[c].initialized = TRUE
    /\ Cardinality(ControlLines("back") \cup ControlLines("legs")) = 4
    /\ RefusesAll(gpio_manager)

\* The step is a call of ControlManager.process_command.
CommandProcessed == call'.op = "ControlManager.process_command"

\* The control event a command is reported with.
ControlEvent(control_name, direction, source) ==
    [type |-> "control", control |-> control_name,
     action |-> IF direction = UP THEN "up" ELSE "down", source |-> source]

\* C21: ControlManager.process_command for a name that has no Control
\* returns false without raising, changes no Control's state or desired
\* state, and records no control event in the journal.
C21_UnknownNameRefused ==
    [][(CommandProcessed /\ call'.control \notin DOMAIN control)
       => /\ call'.ret = RetFalse
          /\ control' = control
          /\ report_manager' = report_manager]_vars

\* C21 witness: Controls are loaded, the report manager has a time to stamp
\* events with, and a command for a name without Control was refused.
C21_Witness ==
    /\ call.op = "ControlManager.process_command"
    /\ call.control \notin DOMAIN control
    /\ call.ret = RetFalse
    /\ DOMAIN control = ControlNames
    /\ has_current_time(report_manager)

\* C22 as stated: each process_command for an existing Control returns
\* true, sets the desired state to MOVE_UP for up and MOVE_DOWN for down,
\* appends exactly one control event (name, direction string, source) to the
\* journal, and changes no Control's state.
C22_Original ==
    [][(CommandProcessed /\ call'.control \in DOMAIN control)
       => /\ call'.ret = RetTrue
          /\ control'[call'.control].desired_state =
                 (IF call'.wanted = UP THEN MOVE_UP ELSE MOVE_DOWN)
          /\ report_manager'.pending_events =
                 Append(report_manager.pending_events,
                        ControlEvent(call'.control, call'.wanted, call'.from))
          /\ \A c \in DOMAIN control : control'[c].state = control[c].state]_vars

\* C22: each process_command for an existing Control returns true and sets
\* the desired state to MOVE_UP for up and MOVE_DOWN for down, leaving every
\* Control's state and every other Control as it was; when the time source
\* gives the current time exactly one control event (name, direction
\* string, source) is appended after the events already pending, and when it
\* gives none the event is dropped and the journal keeps what it held.
C22_CommandReportedIfTimed ==
    [][(CommandProcessed /\ call'.control \in DOMAIN control)
       => /\ call'.ret = RetTrue
          /\ DOMAIN control' = DOMAIN control
          /\ control'[call'.control].desired_state =
                 (IF call'.wanted = UP THEN MOVE_UP ELSE MOVE_DOWN)
          /\ \A c \in DOMAIN control :
                 /\ control'[c].state = control[c].state
                 /\ c # call'.control => control'[c] = control[c]
          /\ report_manager'.time_zone_name = report_manager.time_zone_name
          /\ report_manager'.pending_events =
                 IF has_current_time(report_manager)
                 THEN Append(report_manager.pending_events,
                             ControlEvent(call'.control, call'.wanted,
                                          call'.from))
                 ELSE report_manager.pending_events]_vars

\* C22 witness: a second command was accepted, its event is pending behind
\* the event of an earlier and different command, and the Control asked to
\* move is still idle.
C22_Witness ==
    /\ call.op = "ControlManager.process_command"
    /\ call.ret = RetTrue
    /\ Len(report_manager.pending_events) = 2
    /\ report_manager.pending_events[2] =
           ControlEvent(call.control, call.wanted, call.from)
    /\ report_manager.pending_events[1] # report_manager.pending_events[2]
    /\ control[call.control].state = IDLE
    /\ control[call.control].desired_state = MOVE_UP

\* The lines the Controls of a dict were given.
LinesOf(controls) ==
    UNION {{controls[c].up_gpio_line, controls[c].down_gpio_line} :
              c \in DOMAIN controls}

\* C23: ControlManager.initialize is an idempotent reload: whatever the
\* manager holds, a second initialize with the same files and the same
\* answers of the hardware yields the Controls of the first, all IDLE, and
\* the same acquired lines, no Control being lost to lines still held;
\* ControlManager.uninitialize leaves no Control and none of the lines of
\* its Controls acquired.
C23_InitializeReloads ==
    /\ \A hw \in ManagerHardwareOutcomes :
           LET once == manager_initialize(control, gpio_manager, hw)
               twice == manager_initialize(once.controls, once.g, hw)
           IN  /\ twice.controls = once.controls
               /\ acquired_lines(twice.g) = acquired_lines(once.g)
               /\ \A c \in DOMAIN twice.controls :
                      /\ twice.controls[c].state = IDLE
                      /\ twice.controls[c].desired_state = IDLE
                      /\ twice.controls[c].initialized = TRUE
    /\ LET r == manager_uninitialize(control, gpio_manager)
       IN  /\ DOMAIN r.controls = {}
           /\ LinesOf(control) \cap acquired_lines(r.g) = {}
    /\ call.op = "ControlManager.uninitialize" =>
           /\ DOMAIN control = {}
           /\ acquired_lines(gpio_manager) = {}

\* C23 witness: both Controls were loaded by initialize and hold their
\* lines, one of them has left IDLE since, and a further initialize
\* loads both again.
C23_Witness ==
    /\ DOMAIN control = ControlNames
    /\ LinesOf(control) = acquired_lines(gpio_manager)
    /\ \E c \in DOMAIN control : control[c].state # IDLE
    /\ \E hw \in ManagerHardwareOutcomes :
           DOMAIN manager_initialize(control, gpio_manager, hw).controls
               = ControlNames

\* The step is a call of Routine.process on the Routine named.
RoutineProcessed(name) ==
    /\ call'.op = "Routine.process"
    /\ call'.control = name

\* The command a step is emitted as.
StepCommand(step) ==
    [control_name |-> step.control_name, direction |-> step.move_direction,
     source |-> "routine"]

\* Nanoseconds since the current step of the Routine named became current.
StepElapsedNs(name) == current_time - entry[name].current_since

\* The steps of the Routine named.
StepsOf(name) == routines[name].desc.steps

\* C24: a Routine whose description has zero steps emits no command on any
\* process call; if it is non-looping it is finished exactly from its first
\* process call on, if it is looping it is never finished.
C24_ZeroSteps ==
    \A name \in DOMAIN routines :
        Len(StepsOf(name)) = 0 =>
            /\ command_list = << >>
            /\ entry[name].emitted = 0
            /\ routines[name].is_finished =
                   (/\ routines[name].desc.is_looping = FALSE
                    /\ entry[name].processed)

\* C24 witness: a non-looping Routine without steps is finished by a call
\* of process made before the clock moved.
C24_Witness ==
    \E name \in DOMAIN routines :
        /\ Len(StepsOf(name)) = 0
        /\ routines[name].desc.is_looping = FALSE
        /\ call.op = "Routine.process"
        /\ current_time = entry[name].made
        /\ routines[name].is_finished = TRUE

\* C25: a Routine emits its steps in description order, each as
\* MoveControl(control name, direction, "routine"): a process call on an
\* unfinished Routine emits the current step exactly when the time elapsed
\* since that step became current (the construction for the first step, the
\* call that emitted the previous step otherwise) is at least the step's
\* delay, and the k-th command emitted is that of step k of the description
\* (counted cyclically).
C25_StepsInOrderAfterDelay ==
    [][\A name \in DOMAIN routines :
          (/\ RoutineProcessed(name)
           /\ routines[name].is_finished = FALSE
           /\ Len(StepsOf(name)) > 0)
          => LET n == Len(StepsOf(name))
                 step == StepsOf(name)[routines[name].step_index + 1]
             IN  /\ entry[name].emitted < MaxEmitted =>
                        routines[name].step_index = entry[name].emitted % n
                 /\ IF StepElapsedNs(name) < step.delay_ms * NsPerMs
                    THEN /\ command_list' = << >>
                         /\ routines' = routines
                    ELSE command_list' = <<StepCommand(step)>>]_vars

\* C25 witness: the Routine of steps (1 ms, up), (2 ms, down) made at 0 has
\* emitted its second command, the one down, at 3 ms.
C25_Witness ==
    \E name \in DOMAIN routines :
        /\ Len(StepsOf(name)) = 2
        /\ StepsOf(name)[1].delay_ms = 1
        /\ StepsOf(name)[1].move_direction = UP
        /\ StepsOf(name)[2].delay_ms = 2
        /\ StepsOf(name)[2].move_direction = DOWN
        /\ entry[name].made = 0
        /\ call.op = "Routine.process"
        /\ current_time = 3 * NsPerMs
        /\ entry[name].emitted = 2
        /\ command_list = <<StepCommand(StepsOf(name)[2])>>

\* C26: a Routine whose first step has delay 0 emits that step on its first
\* process call, even when no time has elapsed since its construction.
C26_ZeroDelayFiresAtOnce ==
    [][\A name \in DOMAIN routines :
          (/\ RoutineProcessed(name)
           /\ entry[name].processed = FALSE
           /\ Len(StepsOf(name)) > 0
           /\ StepsOf(name)[1].delay_ms = 0)
          => /\ command_list' = <<StepCommand(StepsOf(name)[1])>>
             /\ entry'[name].emitted = 1]_vars

\* C26 witness: the first step, of delay 0, was emitted by a call made at
\* the time of the construction; the second step has to wait.
C26_Witness ==
    \E name \in DOMAIN routines :
        /\ Len(StepsOf(name)) = 2
        /\ StepsOf(name)[1].delay_ms = 0
        /\ StepsOf(name)[2].delay_ms > 0
        /\ call.op = "Routine.process"
        /\ current_time = entry[name].made
        /\ entry[name].emitted = 1
        /\ command_list = <<StepCommand(StepsOf(name)[1])>>

\* C27: one call of Routine.process appends at most one command, that of
\* the step that was current before the call; the step the emission makes
\* current is not emitted by the same call, even with a delay of 0.
C27_OneCommandPerCall ==
    [][\A name \in DOMAIN routines :
          RoutineProcessed(name)
          => /\ Len(command_list') <= 1
             /\ command_list' # << >> =>
                    /\ command_list' =
                           <<StepCommand(
                               StepsOf(name)[routines[name].step_index + 1])>>
                    /\ entry'[name].current_since = current_time
                    /\ routines'[name].is_finished = FALSE =>
                           routines'[name].step_index =
                               (routines[name].step_index + 1)
                                   % Len(StepsOf(name))]_vars

\* C27 witness: a call emitted the first step and made current a second
\* step of delay 0, which is still to be emitted.
C27_Witness ==
    \E name \in DOMAIN routines :
        /\ Len(StepsOf(name)) = 2
        /\ StepsOf(name)[2].delay_ms = 0
        /\ call.op = "Routine.process"
        /\ command_list = <<StepCommand(StepsOf(name)[1])>>
        /\ entry[name].emitted = 1
        /\ routines[name].step_index = 1
        /\ routines[name].is_finished = FALSE

\* C28: a non-looping Routine with steps becomes finished in the process
\* call that emits its last step and in no other step; once finished it
\* stays finished and a process call emits nothing, whatever the time.
C28_FinishedWithLastStep ==
    [][\A name \in DOMAIN routines :
          (/\ Len(StepsOf(name)) > 0
           /\ routines[name].desc.is_looping = FALSE)
          => LET n == Len(StepsOf(name))
             IN  /\ routines'[name].is_finished =
                        \/ routines[name].is_finished
                        \/ /\ RoutineProcessed(name)
                           /\ command_list' = <<StepCommand(StepsOf(name)[n])>>
                           /\ entry'[name].emitted = n
                 /\ (routines[name].is_finished /\ RoutineProcessed(name))
                        => /\ command_list' = << >>
                           /\ routines' = routines]_vars

\* C28 witness: a finished Routine of two steps was processed after the
\* delays of both steps had elapsed again, and emitted nothing.
C28_Witness ==
    \E name \in DOMAIN routines :
        /\ Len(StepsOf(name)) = 2
        /\ routines[name].desc.is_looping = FALSE
        /\ routines[name].is_finished = TRUE
        /\ entry[name].emitted = 2
        /\ call.op = "Routine.process"
        /\ command_list = << >>
        /\ StepElapsedNs(name) >=
               (StepsOf(name)[1].delay_ms + StepsOf(name)[2].delay_ms + 1)
                   * NsPerMs

\* C29: a looping Routine with steps is never finished; the call that emits
\* its last step makes step 0 current again, and step 0 is emitted again by
\* the first call at which its delay has elapsed since that call.
C29_LoopingWraps ==
    [][\A name \in DOMAIN routines :
          (/\ Len(StepsOf(name)) > 0
           /\ routines[name].desc.is_looping = TRUE)
          => LET n == Len(StepsOf(name))
                 last == routines[name].step_index = n - 1
             IN  /\ routines'[name].is_finished = FALSE
                 /\ (RoutineProcessed(name) /\ last /\ command_list' # << >>)
                        => /\ routines'[name].step_index = 0
                           /\ entry'[name].current_since = current_time
                 /\ (RoutineProcessed(name) /\ routines[name].step_index = 0
                        /\ entry[name].emitted > 0)
                        => (command_list' = <<StepCommand(StepsOf(name)[1])>>)
                           = (StepElapsedNs(name) >=
                                  StepsOf(name)[1].delay_ms * NsPerMs)]_vars

\* C29 witness: the looping Routine of steps (1 ms, up), (2 ms, down) made
\* at 0 has emitted its fourth command, the one down, at 6 ms.
C29_Witness ==
    \E name \in DOMAIN routines :
        /\ routines[name].desc.is_looping = TRUE
        /\ Len(StepsOf(name)) = 2
        /\ StepsOf(name)[1].delay_ms = 1
        /\ StepsOf(name)[1].move_direction = UP
        /\ StepsOf(name)[2].delay_ms = 2
        /\ StepsOf(name)[2].move_direction = DOWN
        /\ entry[name].made = 0
        /\ call.op = "Routine.process"
        /\ current_time = 6 * NsPerMs
        /\ entry[name].emitted = 4
        /\ command_list = <<StepCommand(StepsOf(name)[2])>>
        /\ routines[name].step_index = 0

\* The step is a call of RoutineManager.process_command that leaves the
\* descriptions, the running Routines and their order as they were.
RoutineCommandRefused ==
    /\ descs' = descs
    /\ routines' = routines
    /\ routine_order' = routine_order

\* C30: RoutineManager.process_command fails without changing the loaded
\* descriptions or the running Routines (their names and their progress):
\* a START of a name without description returns "There is no {name}
\* routine.", a START of a running name returns "The {name} routine is
\* already running." and does not restart it, a STOP of a name that is not
\* running returns "The {name} routine is not running.".
C30_FailedCommandsChangeNothing ==
    [][call'.op = "RoutineManager.process_command"
       => LET name == call'.control
          IN  /\ (call'.wanted = START /\ name \notin DOMAIN descs)
                     => /\ call'.ret = <<"There is no ", name, " routine.">>
                        /\ RoutineCommandRefused
              /\ (call'.wanted = START /\ name \in DOMAIN routines)
                     => /\ call'.ret =
                               <<"The ", name, " routine is already running.">>
                        /\ RoutineCommandRefused
              /\ (call'.wanted = STOP /\ name \notin DOMAIN routines)
                     => /\ call'.ret =
                               <<"The ", name, " routine is not running.">>
                        /\ RoutineCommandRefused]_vars

\* C30 witness: a START was refused for a Routine that is running, has
\* emitted its first step and started some time ago; another is running too.
C30_Witness ==
    /\ call.op = "RoutineManager.process_command"
    /\ call.wanted = START
    /\ call.ret = <<"The ", call.control, " routine is already running.">>
    /\ call.control \in DOMAIN routines
    /\ routines[call.control].step_index = 1
    /\ entry[call.control].made < current_time
    /\ DOMAIN routines = DOMAIN descs
    /\ DOMAIN descs = {"wake", "sleep"}

\* The step is a call of RoutineManager.process_command.
RoutineCommandProcessed == call'.op = "RoutineManager.process_command"

\* The step is a call of RoutineManager.process_routines.
RoutinesProcessed == call'.op = "RoutineManager.process_routines"

\* The elements of a sequence.
Range(seq) == {seq[i] : i \in 1..Len(seq)}

\* C31: a START of a loaded routine that is not running returns "Started
\* the {name} routine." and adds a new instance at step 0 whose step timer
\* starts at the time of the START; a STOP of a running routine returns
\* "Stopped the {name} routine." and removes it in the same call; and
\* process_routines emits commands and finished notifications only for
\* routines that are running when it is called.
C31_StartAndStop ==
    [][/\ RoutineCommandProcessed =>
            LET name == call'.control
            IN  /\ (/\ call'.wanted = START
                    /\ name \in DOMAIN descs
                    /\ name \notin DOMAIN routines)
                   => /\ call'.ret = <<"Started the ", name, " routine.">>
                      /\ DOMAIN routines' = DOMAIN routines \cup {name}
                      /\ routines'[name] =
                             [desc |-> descs[name], is_finished |-> FALSE,
                              step_index |-> 0,
                              step_start_time |-> current_time]
                      /\ \A n \in DOMAIN routines :
                             routines'[n] = routines[n]
                      /\ descs' = descs
                /\ (call'.wanted = STOP /\ name \in DOMAIN routines)
                   => /\ call'.ret = <<"Stopped the ", name, " routine.">>
                      /\ DOMAIN routines' = DOMAIN routines \ {name}
                      /\ \A n \in DOMAIN routines' :
                             routines'[n] = routines[n]
                      /\ descs' = descs
       /\ RoutinesProcessed =>
            /\ \A note \in Range(notifications') : note[2] \in DOMAIN routines
            /\ Len(command_list') <= Cardinality(DOMAIN routines)
            /\ \A command \in Range(command_list') :
                   \E n \in DOMAIN routines :
                       command = StepCommand(
                           StepsOf(n)[routines[n].step_index + 1])
            /\ DOMAIN routines' \subseteq DOMAIN routines]_vars

\* C31 witness: a routine started before was stopped some time later and is
\* gone from the running routines, while the other one keeps running.
C31_Witness ==
    /\ call.op = "RoutineManager.process_command"
    /\ call.wanted = STOP
    /\ call.ret = <<"Stopped the ", call.control, " routine.">>
    /\ call.control \notin DOMAIN routines
    /\ call.control \in DOMAIN descs
    /\ DOMAIN routines # {}
    /\ current_time > 0

\* C32: a call of RoutineManager.process_routines advances every running
\* routine exactly once; the routines that are finished after it are removed
\* in that call and announced by exactly one "The {name} routine finished."
\* each, the others stay running and are not announced; a removed name has
\* its description left and can be started again.
C32_ProcessRoutines ==
    [][RoutinesProcessed =>
          LET advanced == [n \in DOMAIN routines |->
                              routine_process(routines[n], current_time)]
              done == {n \in DOMAIN routines :
                          advanced[n].routine.is_finished}
          IN  /\ DOMAIN routines' = DOMAIN routines \ done
              /\ \A n \in DOMAIN routines' :
                     routines'[n] = advanced[n].routine
              /\ Range(notifications') =
                     {<<"The ", n, " routine finished.">> : n \in done}
              /\ Len(notifications') = Cardinality(done)
              /\ Len(command_list') =
                     Cardinality({n \in DOMAIN routines :
                                     advanced[n].commands # << >>})
              /\ done \subseteq DOMAIN descs'
              /\ descs' = descs]_vars

\* C32 witness: process_routines removed and announced the routine that
\* emitted its last step, and left the looping one running.
C32_Witness ==
    /\ call.op = "RoutineManager.process_routines"
    /\ notifications = <<<<"The ", "wake", " routine finished.">>>>
    /\ "wake" \notin DOMAIN routines
    /\ "wake" \in DOMAIN descs
    /\ "sleep" \in DOMAIN routines
    /\ command_list # << >>

\* The routine event a command is reported with.
RoutineEvent(routine_name, action) ==
    [type |-> "routine", routine |-> routine_name,
     action |-> IF action = START THEN "start" ELSE "stop"]

Ticked == call'.op = "Sandman.process"

\* The places of a command list that hold a command to move the Control c.
MovesOf(list, c) ==
    {i \in 1..Len(list) :
        "direction" \in DOMAIN list[i] /\ list[i].control_name = c}

\* The state the last command of the list for the Control c asks for.
LastAsked(list, c) ==
    LET i == CHOOSE i \in MovesOf(list, c) :
                 \A j \in MovesOf(list, c) : j <= i
    IN  IF list[i].direction = UP THEN MOVE_UP ELSE MOVE_DOWN

\* The commands the running routines emit at the current time.
RoutineCommandsDue ==
    process_routines(routines, routine_order, current_time).commands

\* C34 as stated: in one tick the commands popped from outside go first and
\* the commands of the routines come after them; all are dispatched in that
\* order before the Controls are processed, so that an idle Control asked to
\* move makes, in the same tick, the transition its last command asks for.
C34_Original ==
    [][Ticked =>
          LET list == call'.wanted \o RoutineCommandsDue
          IN  /\ command_list' = list
              /\ \A c \in DOMAIN control :
                     (control[c].state = IDLE /\ MovesOf(list, c) # {})
                     => control'[c].state = LastAsked(list, c)]_vars

\* C34: in one tick the running routines are advanced first and the
\* commands popped from outside are appended behind theirs; all are
\* dispatched in that order, and only then is every Control processed, so
\* that an idle Control asked to move makes, in the same tick, the
\* transition its last command asks for: a command from outside overrides
\* a routine's command of the same tick.
C34_RoutinesThenPopped ==
    [][Ticked =>
          LET list == RoutineCommandsDue \o call'.wanted
          IN  /\ command_list' = list
              /\ \A i \in 1..Len(RoutineCommandsDue) :
                     command_list'[i].source = "routine"
              /\ \A c \in DOMAIN control :
                     (control[c].state = IDLE /\ MovesOf(list, c) # {})
                     => control'[c].state = LastAsked(list, c)
              /\ report_manager'.pending_events = << >>]_vars

\* C34 witness: in one tick a routine asked to raise a Control and a command
\* from outside asked to lower it; the Control is being lowered.
C34_Witness ==
    /\ call.op = "Sandman.process"
    /\ command_list = <<[control_name |-> "back", direction |-> UP,
                         source |-> "routine"],
                        [control_name |-> "back", direction |-> DOWN,
                         source |-> "voice"]>>
    /\ control["back"].state = MOVE_DOWN

\* ---- C35
AcceptedInt(json, key) ==
    /\ key \in DOMAIN json
    /\ json[key].t \in {"int", "bool"}
    /\ json[key].v >= 0

AcceptedName(json, key) ==
    key \in DOMAIN json /\ json[key].t = "str" /\ json[key].v # ""

AcceptedDirection(json) ==
    /\ "moveDirection" \in DOMAIN json
    /\ json["moveDirection"].t = "str"
    /\ json["moveDirection"].v \in {"up", "down"}

IntKept(json, key, value, default) ==
    value = IF AcceptedInt(json, key) THEN json[key].v ELSE default

NameKept(json, key, value) ==
    value = IF AcceptedName(json, key) THEN json[key].v ELSE ""

\* What a step record gives: the claim for a step, without the direction.
StepParsed(json, step) ==
    /\ step_is_valid(step) <=>
           AcceptedInt(json, "delayMS") /\ AcceptedName(json, "controlName")
    /\ IntKept(json, "delayMS", step.delay_ms, -1)
    /\ NameKept(json, "controlName", step.control_name)
    /\ AcceptedDirection(json) =>
           as_string(step.move_direction) = json["moveDirection"].v

JsonStepsOf(json) ==
    IF "steps" \in DOMAIN json /\ json["steps"].t = "list"
        THEN json["steps"].v
    ELSE << >>

\* The elements of the steps that are read: those before the first one that
\* is no record.
StepsRead(steps_json) ==
    {i \in 1..Len(steps_json) :
         \A k \in 1..i : "t" \notin DOMAIN steps_json[k]}

ControlParsed ==
    call.op = "ControlConfig.parse_from_file" =>
        LET json == call.wanted
            config == call.ret
        IN  /\ is_valid(config) <=>
                   /\ AcceptedName(json, "name")
                   /\ AcceptedInt(json, "upGPIOLine")
                   /\ AcceptedInt(json, "downGPIOLine")
                   /\ AcceptedInt(json, "movingDurationMS")
                   /\ json["upGPIOLine"].v # json["downGPIOLine"].v
            /\ NameKept(json, "name", config.name)
            /\ IntKept(json, "upGPIOLine", config.up_gpio_line, -1)
            /\ IntKept(json, "downGPIOLine", config.down_gpio_line, -1)
            /\ IntKept(json, "movingDurationMS", config.moving_duration_ms, -1)
            /\ IntKept(json, "coolDownDurationMS",
                       config.cool_down_duration_ms, 25)

DescParsed ==
    call.op = "RoutineDesc.parse_from_file" =>
        LET json == call.wanted
            desc == call.ret
            read == StepsRead(JsonStepsOf(json))
            loaded == {i \in read :
                           step_is_valid(load_from_json(JsonStepsOf(json)[i]))}
        IN  /\ desc_is_valid(desc) <=> AcceptedName(json, "name")
            /\ NameKept(json, "name", desc.name)
            /\ desc.is_looping <=>
                   /\ "isLooping" \in DOMAIN json
                   /\ json["isLooping"] = JsonTrue
            /\ Len(desc.steps) = Cardinality(loaded)
            /\ \A i \in 1..Len(desc.steps) :
                   /\ step_is_valid(desc.steps[i])
                   /\ \E k \in loaded :
                          /\ Cardinality({m \in loaded : m <= k}) = i
                          /\ StepParsed(JsonStepsOf(json)[k], desc.steps[i])

\* C35 as stated: a parsed control record, routine record or routine step in
\* which a field without a default (for a step: delayMS, controlName,
\* moveDirection) is missing or malformed is invalid, a missing or malformed
\* field with a default takes the default and leaves the record valid, and
\* every other field keeps the value from the input.
C35_Original ==
    /\ ControlParsed
    /\ DescParsed
    /\ call.op = "Step.load_from_json" =>
           /\ StepParsed(call.wanted, call.ret)
           /\ AcceptedDirection(call.wanted) = FALSE =>
                  step_is_valid(call.ret) = FALSE

\* C35 as amended: the direction of a step has a default too. A control
\* record is valid exactly when name, upGPIOLine, downGPIOLine and
\* movingDurationMS are accepted and the two lines differ, a routine record
\* exactly when its name is accepted, a step exactly when delayMS and
\* controlName are accepted; coolDownDurationMS, isLooping, steps and
\* moveDirection fall back to 25, false, empty and up; the steps loaded are
\* the valid ones, in order; every accepted field keeps its input value.
C35_DefaultsAndValidity ==
    /\ ControlParsed
    /\ DescParsed
    /\ call.op = "Step.load_from_json" =>
           /\ StepParsed(call.wanted, call.ret)
           /\ AcceptedDirection(call.wanted) = FALSE =>
                  call.ret.move_direction = UP

\* A description is parsed whose looping flag is no boolean, whose first step
\* has no delay and whose second step has a direction that is no string: the
\* description is valid, does not loop, and holds the second step, upwards.
C35_Witness ==
    /\ call.op = "RoutineDesc.parse_from_file"
    /\ DOMAIN call.wanted = {"name", "isLooping", "steps"}
    /\ call.wanted["isLooping"] = JsonInt(1)
    /\ call.wanted["steps"].t = "list"
    /\ Len(call.wanted["steps"].v) = 2
    /\ "delayMS" \notin DOMAIN call.wanted["steps"].v[1]
    /\ "t" \notin DOMAIN call.wanted["steps"].v[2]
    /\ call.wanted["steps"].v[2]["moveDirection"] = JsonInt(0)
    /\ desc_is_valid(call.ret)
    /\ call.ret.is_looping = FALSE
    /\ call.ret.steps = <<Step(0, "legs", UP)>>

\* ---- C36
\* A line is active when it carries the level set_line_active drives.
LineActiveIn(g, line) == line \in Lines /\ g.line_values[line] = INACTIVE

BothActive(g, ctl) ==
    LineActiveIn(g, ctl.up_gpio_line) /\ LineActiveIn(g, ctl.down_gpio_line)

OppositeLine(ctl, state) ==
    IF state = MOVE_UP THEN ctl.down_gpio_line ELSE ctl.up_gpio_line

TargetLine(ctl, state) ==
    IF state = MOVE_UP THEN ctl.up_gpio_line ELSE ctl.down_gpio_line

\* C36: the two lines of a Control are never active at the same time, neither
\* before nor after any call nor between the GPIO calls of a transition:
\* a transition into a moving state sets the opposite line inactive and then
\* the target line active, every other transition only sets lines inactive.
C36_NeverBothActive ==
    [][\A c \in DOMAIN control :
           /\ BothActive(gpio_manager, control[c]) = FALSE
           /\ BothActive(gpio_manager', control'[c]) = FALSE
           /\ control'[c].state # control[c].state =>
                  LET state == control'[c].state
                      calls == set_state_calls(control[c], state)
                  IN  /\ gpio_manager' =
                             after_calls(gpio_manager, calls, Len(calls))
                      /\ \A k \in 0..Len(calls) :
                             BothActive(after_calls(gpio_manager, calls, k),
                                        control[c]) = FALSE
                      /\ IF state \in {MOVE_UP, MOVE_DOWN}
                         THEN calls = << <<"inactive", OppositeLine(control[c], state)>>,
                                         <<"active", TargetLine(control[c], state)>> >>
                         ELSE \A k \in 1..Len(calls) : calls[k][1] = "inactive"]_vars

\* In live mode a Control that was moving down has been switched to moving
\* up by one process call: its up line is active, its down line is not.
C36_Witness ==
    /\ gpio_manager.is_live_mode = TRUE
    /\ call.op = "Control.process"
    /\ call.from = MOVE_DOWN
    /\ control["back"].state = MOVE_UP
    /\ LineActiveIn(gpio_manager, control["back"].up_gpio_line)
    /\ LineActiveIn(gpio_manager, control["back"].down_gpio_line) = FALSE

\* ---- C37
\* The step is a request, made on the initialized Control c, for the moving
\* state it is in.
SameDirectionRequested(c) ==
    /\ call'.op = "Control.set_desired_state"
    /\ call'.control = c
    /\ call'.ret = RetNone
    /\ control[c].state \in Moving
    /\ call'.wanted = control[c].state

\* C37: a request for the direction in which a Control is moving changes
\* neither its state nor its movement timer nor the line levels and emits no
\* notification; a process call that finds the request recorded leaves the
\* Control moving, timer untouched and without notification, while less than
\* moving_duration_ms has elapsed since the moving state was entered, and
\* moves it to COOL_DOWN once that time has elapsed.
C37_SameDirectionKeepsTimer ==
    [][ \A c \in DOMAIN control :
          /\ SameDirectionRequested(c)
               => /\ control'[c] =
                         [control[c] EXCEPT !.desired_state = control[c].state]
                  /\ gpio_manager' = gpio_manager
                  /\ notifications' = << >>
                  /\ entry' = entry
          /\ ( /\ Processed(c)
               /\ control[c].state \in Moving
               /\ control[c].desired_state = control[c].state )
               => IF ElapsedNs(c) < control[c].moving_duration_ms * NsPerMs
                  THEN /\ control'[c] = control[c]
                       /\ control[c].state_start_time = entry[c].time
                       /\ notifications' = << >>
                  ELSE /\ control'[c].state = COOL_DOWN
                       /\ control'[c].desired_state = IDLE ]_vars

\* A Control that has been moving up for the whole moving duration is asked
\* to move up once more: it is still moving up, on the timer of its entry.
C37_Witness ==
    \E c \in DOMAIN control :
        /\ call.op = "Control.set_desired_state" /\ call.control = c
        /\ call.ret = RetNone /\ call.wanted = MOVE_UP
        /\ control[c].state = MOVE_UP
        /\ control[c].desired_state = MOVE_UP
        /\ control[c].state_start_time = entry[c].time
        /\ ElapsedNs(c) >= control[c].moving_duration_ms * NsPerMs

\* ---- C38
\* C38: a process call on a Control in a moving state whose desired state is
\* the opposite moving state, made when moving_duration_ms or more has
\* elapsed since the state was entered, puts the Control in the opposite
\* moving state with its timer restarted at the current time, keeps the
\* request and does not enter COOL_DOWN.
C38_RequestBeforeTimeout ==
    [][ \A c \in DOMAIN control :
          ( /\ Processed(c)
            /\ control[c].state \in Moving
            /\ control[c].desired_state = Opposite(control[c].state)
            /\ ElapsedNs(c) >= control[c].moving_duration_ms * NsPerMs )
            => /\ control'[c].state = Opposite(control[c].state)
               /\ control'[c].desired_state = control'[c].state
               /\ control'[c].state_start_time = current_time
               /\ entry'[c].time = current_time ]_vars

\* A process call found the Control moving down for the whole moving
\* duration with a request to move up, and left it moving up on a fresh
\* timer: it has been moving without a cool down for that long, and goes on.
C38_Witness ==
    \E c \in DOMAIN control :
        /\ call.op = "Control.process" /\ call.control = c
        /\ call.from = MOVE_DOWN /\ call.wanted = MOVE_UP
        /\ call.since >= 0
        /\ current_time - call.since >= control[c].moving_duration_ms * NsPerMs
        /\ control[c].state = MOVE_UP
        /\ control[c].state_start_time = current_time
        /\ entry[c].from = MOVE_DOWN

\* ---- C39
\* The Control c is idle, nothing is requested of it and neither of its
\* lines is active.
Settled(c) ==
    /\ control[c].state = IDLE
    /\ control[c].desired_state = IDLE
    /\ LineActiveIn(gpio_manager, control[c].up_gpio_line) = FALSE
    /\ LineActiveIn(gpio_manager, control[c].down_gpio_line) = FALSE

Requested ==
    \E c \in DOMAIN control, state \in State : ControlSetDesiredState(c, state)

\* C39: when the clock runs on and process is called again and again, then
\* either set_desired_state calls are made for ever, or the Control ends up
\* IDLE with desired state IDLE and both lines inactive and stays so.
C39_SettlesInIdle ==
    \/ []<><<Requested>>_vars
    \/ \A c \in {"back"} : <>[]Settled(c)

\* In live mode the Control ended a cool down during which it was asked to
\* move up: it is idle with nothing requested and both lines inactive.
C39_Witness ==
    /\ gpio_manager.is_live_mode = TRUE
    /\ call.op = "Control.process"
    /\ call.from = COOL_DOWN
    /\ call.wanted = MOVE_UP
    /\ Settled("back")

\* ---- C40
\* The routine of the name is running and does not loop.
RunsOnce(name) ==
    name \in DOMAIN routines /\ routines[name].desc.is_looping = FALSE

\* What holds of a running routine that does not loop, and of the step that
\* removes it: it has emitted one command per step it has passed; it is
\* removed by a STOP command or by the process_routines call in which it
\* emits the last of its n commands (or finds that it has no steps), with
\* one finished notification.
EmitsEachStepOnce(name) ==
    LET n == Len(routines[name].desc.steps)
        last == routine_process(routines[name], current_time)
    IN  RunsOnce(name) =>
            /\ routines[name].is_finished = FALSE
            /\ IF n = 0 THEN routines[name].step_index = 0
               ELSE routines[name].step_index \in 0..(n - 1)
            /\ entry[name].emitted = routines[name].step_index
            /\ name \notin DOMAIN routines' =>
                   \/ /\ call'.op = "RoutineManager.process_command"
                      /\ call'.ret = Stopped(name)
                      /\ notifications' = << >>
                   \/ /\ call'.op = "RoutineManager.process_routines"
                      /\ entry[name].emitted + Len(last.commands) = n
                      /\ Len(last.commands) = IF n = 0 THEN 0 ELSE 1
                      /\ notifications' = <<Finished(name)>>
            /\ ( /\ name \in DOMAIN routines'
                 /\ call'.op = "RoutineManager.process_routines" ) =>
                   /\ Finished(name) \notin Range(notifications')
                   /\ entry'[name].emitted =
                          entry[name].emitted + Len(last.commands)

====
